---- MODULE Spec2Model ----
(***************************************************************************)
(* Evermire: journaling application.  Model of the API route handlers      *)
(* (posts, posts/[id], analytics, chat, debug/clear-cache, auth) over the  *)
(* document datastore (Post, User and ChatMessage collections), the object *)
(* store and the generative-AI service, and of the chat page that calls   *)
(* the chat handlers from the browser.                                     *)
(*                                                                         *)
(* Every handler is an async function: it runs from one await of a         *)
(* datastore / object-store / AI call to the next.  Each action below is   *)
(* one such segment of one request; requests of different callers          *)
(* interleave at these points only.                                        *)
(*                                                                         *)
(* Strings that take part in a computation (the context string that is     *)
(* hashed) are sequences of UTF-16 code units.  Long literal texts of the  *)
(* source are abbreviated to short stand-ins, named after the source text. *)
(***************************************************************************)
EXTENDS Integers, Sequences, FiniteSets, TLC

\* ------------------------------------------------------------------ bounds
\* The number of Entries ever created.
MaxPosts == 4

\* Accounts of the User collection and request slots (concurrent requests).
Users == {1, 2}
Slots == {1, 2}
NoSession == 0

\* ------------------------------------------------------- 32-bit arithmetic
\* JavaScript bitwise operators work on signed 32-bit integers.  A 32-bit
\* pattern is kept as two 16-bit halves so that no intermediate value leaves
\* the range of the checker's integers.
Half == 65536

Word(hi, lo) == [hi |-> hi, lo |-> lo]

\* ToInt32 of the pattern: the signed value.
ToInt32(w) == IF w.hi >= 32768 THEN (w.hi - Half) * Half + w.lo
              ELSE w.hi * Half + w.lo

\* The pattern of a signed 32-bit value.
FromInt32(n) == Word((n \div Half) % Half, n % Half)

\* hash << 5
Shl5(w) == LET lo == w.lo * 32
               hi == w.hi * 32 + (lo \div Half)
           IN  Word(hi % Half, lo % Half)

\* a - b modulo 2^32
Sub32(a, b) == LET lo == a.lo - b.lo
                   br == IF lo < 0 THEN 1 ELSE 0
                   hi == a.hi - b.hi - br
               IN  Word(hi % Half, lo % Half)

\* a + c modulo 2^32, c a code unit
AddChar32(a, c) == LET lo == a.lo + c
                       hi == a.hi + (lo \div Half)
                   IN  Word(hi % Half, lo % Half)

\* hash = ((hash << 5) - hash) + char; hash = hash & hash;
HashStepBroken(h, c) == ToInt32(AddChar32(Shl5(FromInt32(h)), c))
HashStep(h, c) == ToInt32(AddChar32(Sub32(Shl5(FromInt32(h)), FromInt32(h)), c))

\* The values of a signed 32-bit integer.
Int32 == (-2147483647 - 1)..2147483647

RECURSIVE HashFrom(_, _, _)
\* The loop from index i on, with the hash so far (a 32-bit integer).
HashFrom(h, s, i) == IF h \in Int32 /\ i <= Len(s)
                     THEN HashFrom(HashStep(h, s[i]), s, i + 1)
                     ELSE h

\* let hash = 0; for (i = 0; i < contextString.length; i++) ...
HashOf(s) == HashFrom(0, s, 1)

\* ---------------------------------------------------------------- strings
RECURSIVE Digits(_)
Digits(n) == IF n < 10 THEN <<48 + n>>
             ELSE Append(Digits(n \div 10), 48 + (n % 10))

\* The last decimal digit of a negative number.
LastDigit(n) == (10 - (n % 10)) % 10

RECURSIVE NegDigits(_)
NegDigits(n) == IF n = 0 THEN <<>>
                ELSE Append(NegDigits((n + LastDigit(n)) \div 10), 48 + LastDigit(n))

\* Number.prototype.toString() of an integer: decimal, "-" for negatives.
NumToString(n) == IF n >= 0 THEN Digits(n) ELSE <<45>> \o NegDigits(n)

RECURSIVE Join(_, _)
\* Array.prototype.join
Join(parts, sep) == IF Len(parts) = 0 THEN <<>>
                    ELSE IF Len(parts) = 1 THEN parts[1]
                    ELSE parts[1] \o sep \o Join(Tail(parts), sep)

Dash == <<45>>
Bar == <<124>>

\* ------------------------------------------------------------ Entry (Post)
\* mentalHealthTraits of the Post schema
Traits(ax, dp, st, hp, en, cf) ==
    [anxiety |-> ax, depression |-> dp, stress |-> st,
     happiness |-> hp, energy |-> en, confidence |-> cf]

TraitNames == {"anxiety", "depression", "stress", "happiness", "energy", "confidence"}
Moods == {"very_happy", "happy", "neutral", "sad", "very_sad"}

\* 'Unable to analyze mood at this time. The AI analysis could not be completed.'
UnableDetailed == <<85>>
\* 'Unable to analyze mood at this time.'
UnableShort == "Unable to analyze mood at this time."

\* The object analyzeMood returns from its catch block.
DefaultAnalysis ==
    [detailedMoodDescription |-> UnableDetailed,
     moodDescription |-> UnableShort,
     mentalHealthTraits |-> Traits(5, 5, 5, 5, 5, 5),
     overallMood |-> "neutral"]

\* What the mood-analysis model call can produce: the call rejects, text() is
\* empty, the text is no JSON, or the text is JSON.  A JSON object is given by
\* its parsed value; Undefined stands for a property the object lacks (for a
\* text property the empty text stands for it: it fails `required` and is
\* falsy in the same way).
Undefined == [undefined |-> TRUE]
NoText == <<>>

CalmAnalysis ==
    [detailedMoodDescription |-> <<97>>, moodDescription |-> "You look calm.",
     mentalHealthTraits |-> Traits(2, 1, 3, 8, 7, 6), overallMood |-> "happy"]

AnalysisObjects ==
    { CalmAnalysis,
      [detailedMoodDescription |-> NoText, moodDescription |-> "",
       mentalHealthTraits |-> Undefined, overallMood |-> ""] }

AnalysisResponses ==
    {[kind |-> "throw"], [kind |-> "empty"], [kind |-> "garbage"]}
    \cup {[kind |-> "json", obj |-> o] : o \in AnalysisObjects}

\* analyzeMood: try { ... JSON.parse ... } catch { return default }
analyzeMoodRethrow(resp) ==
    IF resp.kind = "json"
    THEN [detailedMoodDescription |-> resp.obj.detailedMoodDescription,
          moodDescription |-> resp.obj.moodDescription,
          mentalHealthTraits |-> resp.obj.mentalHealthTraits,
          overallMood |-> resp.obj.overallMood]
    ELSE [detailedMoodDescription |-> NoText, moodDescription |-> "",
          mentalHealthTraits |-> Undefined, overallMood |-> ""]
analyzeMood(resp) ==
    IF resp.kind = "json"
    THEN [detailedMoodDescription |-> resp.obj.detailedMoodDescription,
          moodDescription |-> resp.obj.moodDescription,
          mentalHealthTraits |-> resp.obj.mentalHealthTraits,
          overallMood |-> resp.obj.overallMood]
    ELSE DefaultAnalysis

\* Mongoose validation of a new Post: the required paths are present and
\* overallMood is one of the enum values.
PostValid(a) ==
    /\ a.detailedMoodDescription # NoText
    /\ a.moodDescription # ""
    /\ a.overallMood \in Moods

\* ------------------------------------------------------ Suggestion Bundle
Bundle(a, m, s, f) == [activities |-> a, movies |-> m, songs |-> s, food |-> f]

Categories == <<"activities", "movies", "songs", "food">>

EmptySuggestions == Bundle(<<>>, <<>>, <<>>, <<>>)

\* The hardcoded default suggestions of generateContextualSuggestions
\* (three texts per category, abbreviated).
DefaultSuggestions ==
    Bundle(<<"Practice mindfulness", "Start a journal", "Take a nature walk">>,
           <<"Inside Out", "The Pursuit of Happyness", "My Neighbor Totoro">>,
           <<"Weightless", "Here Comes the Sun", "Clair de Lune">>,
           <<"Dark chocolate", "Chamomile tea", "Omega-3 foods">>)

\* Parsed JSON values of a category: a list, a value that is no list, or
\* Undefined.
NotAList == [string |-> TRUE]
List(l) == [list |-> l]

SuggestionObjects ==
    { Bundle(List(<<"a1">>), List(<<"m1">>), List(<<"s1">>), List(<<"f1">>)),
      Bundle(List(<<>>), List(<<"m1">>), List(<<"s1">>), List(<<"f1">>)),
      Bundle(List(<<"a1">>), List(<<"m1">>), Undefined, List(<<"f1">>)),
      Bundle(List(<<"a1">>), List(<<"m1">>), List(<<"s1">>), NotAList) }

SuggestionResponses ==
    {[kind |-> "throw"], [kind |-> "empty"], [kind |-> "garbage"]}
    \cup {[kind |-> "json", obj |-> o] : o \in SuggestionObjects}

IsArray(v) == v # Undefined /\ v # NotAList

\* validateSuggestions: throws when a category is missing or no array.
validateSuggestions(obj) == \A i \in 1..4 : IsArray(obj[Categories[i]])

\* generateContextualSuggestions: the parsed bundle, or the defaults from the
\* catch block.
generateContextualSuggestionsEmpty(resp) ==
    IF resp.kind = "json" /\ validateSuggestions(resp.obj)
    THEN Bundle(resp.obj.activities.list, resp.obj.movies.list,
                resp.obj.songs.list, resp.obj.food.list)
    ELSE EmptySuggestions
generateContextualSuggestions(resp) ==
    IF resp.kind = "json" /\ validateSuggestions(resp.obj)
    THEN Bundle(resp.obj.activities.list, resp.obj.movies.list,
                resp.obj.songs.list, resp.obj.food.list)
    ELSE DefaultSuggestions

\* cachedSuggestions && cachedSuggestions.activities?.length > 0 && ...
CachedValidAny(c) == c # Undefined
CachedValid(c) ==
    /\ c # Undefined
    /\ \A i \in 1..4 : Len(c[Categories[i]]) > 0

\* ------------------------------------------------------------ fingerprint
\* analytics route: `${post._id}-${post.createdAt.getTime()}-${post.detailedMoodDescription}`
AnalyticsPart(post) ==
    NumToString(post.id) \o Dash \o NumToString(post.createdAt) \o Dash
        \o post.detailedMoodDescription

\* posts route: `${post._id}-${post.detailedMoodDescription}`
PostsPart(post) == NumToString(post.id) \o Dash \o post.detailedMoodDescription

\* createContextHash of the analytics route
createContextHashDescriptions(last3Posts) ==
    NumToString(HashOf(Join([i \in 1..Len(last3Posts) |->
                                last3Posts[i].detailedMoodDescription], Bar)))
createContextHashAnalytics(last3Posts) ==
    NumToString(HashOf(Join([i \in 1..Len(last3Posts) |-> AnalyticsPart(last3Posts[i])], Bar)))

\* createContextHash of the posts route
createContextHashPosts(posts3) ==
    NumToString(HashOf(Join([i \in 1..Len(posts3) |-> PostsPart(posts3[i])], Bar)))

\* --------------------------------------------------------------- state
VARIABLES
    posts,      \* the Post collection: a set of documents
    users,      \* the User collection: the context fields of each Account
    messages,   \* the ChatMessage collection: a set of documents
    nextId,     \* the next _id the datastore hands out
    clock,      \* the time in milliseconds, as `new Date()` reads it
    req,        \* the requests being served, one per slot
    since,      \* history: per Account, the last Entry creation or deletion
                \* that has succeeded and that no analytics read has started
                \* after yet
    page        \* the state of the chat page in the browser of Account 1

vars == <<posts, users, messages, nextId, clock, req, since, page>>

\* The chat page when it is mounted: useState([]), useState(false),
\* useState(true); no fetch has been issued.  `history` and `send` tell
\* whether the fetch of the history and of a send are outstanding, `sends`
\* counts the sends and `inFlight` those without a response; `before` is
\* history: the displayed list when the last send was submitted.
FreshPage ==
    [messages |-> <<>>, isLoading |-> FALSE, isLoadingHistory |-> TRUE,
     history |-> "none", send |-> "none", sends |-> 0, inFlight |-> 0,
     before |-> <<>>, sent |-> <<>>]

\* A Date value (lastContextUpdatedAt).
Date(t) == [time |-> t]

\* The context fields of a User document.
UserDoc(h, t, c) ==
    [lastContextHash |-> h, lastContextUpdatedAt |-> t, cachedSuggestions |-> c]

\* A new Account: none of the optional fields is set.  It is also what
\* $unset of the three fields leaves.
FreshUser == UserDoc(NoText, Undefined, Undefined)

\* A request: the handler it runs (op, rev), the session's user id, the
\* await it is suspended at (pc), its local variables (resp is what the AI
\* call returned), the response (status, body) and counts of the external
\* calls it has made (ai, up) and of its datastore writes (wr).  `after` is
\* history: the value of `since` for the Account when the request started.
\* A chat post also has its input (message), the ids of the chat history it
\* read and the reply generateAIResponse returned.
NoResponse == [kind |-> "none"]

\* No Entry was created or deleted since the last analytics read started.
NoMutation == [kind |-> "none", id |-> 0]
Mutation(kind, id) == [kind |-> kind, id |-> id]

IdleReq ==
    [op |-> "none", rev |-> "none", user |-> NoSession, pc |-> "idle",
     postId |-> 0, hash |-> NoText, ctx |-> <<>>, path |-> "none",
     resp |-> NoResponse, analysis |-> Undefined, suggestions |-> EmptySuggestions,
     status |-> 0, body |-> Undefined, ai |-> 0, wr |-> 0, up |-> 0,
     after |-> NoMutation, message |-> Undefined, history |-> <<>>,
     reply |-> NoText]

NewReq(op, rev, sess) == [IdleReq EXCEPT !.op = op, !.rev = rev, !.user = sess]

Free(s) == req[s].pc \in {"idle", "done"}

\* NextResponse.json(body, {status})
Respond(r, status, body) ==
    [r EXCEPT !.pc = "done", !.status = status, !.body = body,
              !.hash = NoText, !.ctx = <<>>, !.analysis = Undefined,
              !.history = <<>>]

At(s, op, pc) == req[s].op = op /\ req[s].pc = pc

\* History: the request r of a create or a delete responds with success.
Succeeded(r) ==
    IF r.op = "posts.POST" THEN [since EXCEPT ![r.user] = Mutation("create", r.postId)]
    ELSE IF r.op = "posts.DELETE" THEN [since EXCEPT ![r.user] = Mutation("delete", r.postId)]
    ELSE since

\* -------------------------------------------------------- datastore reads
PostsOf(u) == {p \in posts : p.userId = u}

\* The orders in which .sort({createdAt: -1}) and .sort({createdAt: 1}) can
\* return a set of documents: documents with equal times come in any order.
\* The sequences in which sign * createdAt does not decrease are a document
\* that no other precedes, followed by such a sequence of the rest.
RECURSIVE OrderedByCreatedAt(_, _)
OrderedByCreatedAt(S, sign) ==
    IF S = {} THEN {<<>>}
    ELSE UNION {{<<x>> \o q : q \in OrderedByCreatedAt(S \ {x}, sign)}
                  : x \in {p \in S : \A o \in S :
                                       sign * p.createdAt <= sign * o.createdAt}}

SortedAsc(S) == OrderedByCreatedAt(S, 1)
SortedDesc(S) == OrderedByCreatedAt(S, -1)

Min(a, b) == IF a < b THEN a ELSE b

\* Array.prototype.slice(0, n) and .limit(n)
Slice(q, n) == SubSeq(q, 1, Min(n, Len(q)))

Reverse(q) == [i \in 1..Len(q) |-> q[Len(q) + 1 - i]]

Ids(q) == [i \in 1..Len(q) |-> q[i].id]

ContextSize == 3
TrendWindow == 10
TopDescriptions == 5

\* ------------------------------------------------ analytics: aggregates
RECURSIVE SumTrait(_, _)
\* posts.reduce((acc, post) => acc + post.mentalHealthTraits[t], 0)
SumTrait(q, t) == IF Len(q) = 0 THEN 0
                  ELSE q[1].mentalHealthTraits[t] + SumTrait(Tail(q), t)

\* Math.round((total / n) * 10) / 10, kept in tenths: the integer
\* Math.round(total / n * 10).  Math.round rounds a half up.
RoundTenthsDown(total, n) == (10 * total) \div n
RoundTenths(total, n) == (20 * total + n) \div (2 * n)

AverageScores(q) == [t \in TraitNames |-> RoundTenths(SumTrait(q, t), Len(q))]

MoodDistribution(q) ==
    [m \in Moods |-> Cardinality({i \in 1..Len(q) : q[i].overallMood = m})]

\* posts.slice(0, 10).reverse() and the map over it
RecentTrendsNewestFirst(q) ==
    LET recentPosts == Slice(q, TrendWindow)
    IN  [t \in TraitNames |->
            [i \in 1..Len(recentPosts) |-> recentPosts[i].mentalHealthTraits[t]]]
RecentTrends(q) ==
    LET recentPosts == Reverse(Slice(q, TrendWindow))
    IN  [t \in TraitNames |->
            [i \in 1..Len(recentPosts) |-> recentPosts[i].mentalHealthTraits[t]]]

AddNew(seen, x) == IF \E i \in 1..Len(seen) : seen[i] = x THEN seen ELSE Append(seen, x)

RECURSIVE Unique(_)
\* [...new Set(list)]: the distinct elements in order of first appearance
Unique(l) ==
    IF Len(l) = 0 THEN <<>>
    ELSE AddNew(Unique(SubSeq(l, 1, Len(l) - 1)), l[Len(l)])

TopMoodDescriptions(q) ==
    Slice(Unique([i \in 1..Len(q) |-> q[i].detailedMoodDescription]), TopDescriptions)

\* A response body of the analytics GET.  `null` holds the names of the
\* properties whose value is null and `missing` those the object lacks (the
\* record field of such a property carries no information).
AnalyticsBody(total, avg, dist, trends, top, sugg, ids) ==
    [totalPosts |-> total, averageScores |-> avg, moodDistribution |-> dist,
     recentTrends |-> trends, topMoodDescriptions |-> top,
     suggestions |-> sugg, posts |-> ids, null |-> {}, missing |-> {}]

ZeroScores == [t \in TraitNames |-> 0]
ZeroDistribution == [m \in Moods |-> 0]
ZeroTrends == [t \in TraitNames |-> <<>>]

\* The response of the analytics GET when the Account has no Entry: the
\* earlier revision, and the current one.
ZeroBodyOld ==
    [AnalyticsBody(0, ZeroScores, ZeroDistribution, ZeroTrends, <<>>,
                   EmptySuggestions, <<>>)
       EXCEPT !.null = {"averageScores", "moodDistribution", "recentTrends"},
              !.missing = {"suggestions", "posts"}]
ZeroBody ==
    AnalyticsBody(0, ZeroScores, ZeroDistribution, ZeroTrends, <<>>,
                  EmptySuggestions, <<>>)

\* The response body for a non-empty list of Entries, before the suggestions
\* are known.
Aggregates(q) ==
    AnalyticsBody(Len(q), AverageScores(q), MoodDistribution(q), RecentTrends(q),
                  TopMoodDescriptions(q), EmptySuggestions, Ids(q))

\* ------------------------------------------------ analytics: GET handler
\* const contextChanged = !storedContextHash || storedContextHash !== currentContextHash
contextChangedAbsentOnly(stored, current) == stored = NoText
contextChangedAlways(stored, current) == TRUE
contextChanged(stored, current) == stored = NoText \/ stored # current

StartAnalytics(s, sess) ==
    /\ Free(s)
    /\ req' = [req EXCEPT ![s] =
                 IF sess = NoSession
                 THEN Respond(NewReq("analytics.GET", "current", sess), 401, Undefined)
                 ELSE [NewReq("analytics.GET", "current", sess)
                         EXCEPT !.pc = "findPosts", !.after = since[sess]]]
    /\ since' = IF sess = NoSession THEN since
                ELSE [since EXCEPT ![sess] = NoMutation]
    /\ UNCHANGED <<page, messages, posts, users, nextId, clock>>

\* Post.find({userId}).sort({createdAt: -1}); the aggregates;
\* createContextHash(posts.slice(0, 3))
AnalyticsFindPosts(s) ==
    /\ At(s, "analytics.GET", "findPosts")
    /\ \E q \in SortedDesc(PostsOf(req[s].user)) :
          req' = [req EXCEPT ![s] =
                    IF Len(q) = 0 THEN Respond(@, 200, ZeroBody)
                    ELSE [@ EXCEPT !.pc = "findUser",
                                   !.body = Aggregates(q),
                                   !.ctx = Ids(Slice(q, ContextSize)),
                                   !.hash = createContextHashAnalytics(Slice(q, ContextSize))]]
    /\ UNCHANGED <<page, messages, posts, users, nextId, clock, since>>

\* User.findById; the decision on contextChanged and on the cached bundle
AnalyticsFindUser(s) ==
    /\ At(s, "analytics.GET", "findUser")
    /\ LET user == users[req[s].user]
           r == req[s]
       IN  req' = [req EXCEPT ![s] =
                 IF contextChanged(user.lastContextHash, r.hash)
                 THEN [r EXCEPT !.pc = "generate", !.path = "miss"]
                 ELSE IF CachedValid(user.cachedSuggestions)
                 THEN Respond([r EXCEPT !.path = "hit",
                                        !.suggestions = user.cachedSuggestions],
                              200,
                              [r.body EXCEPT !.suggestions = user.cachedSuggestions])
                 ELSE [r EXCEPT !.pc = "generate", !.path = "heal"]]
    /\ UNCHANGED <<page, messages, posts, users, nextId, clock, since>>

\* suggestions = await generateContextualSuggestions(last3Posts)
AnalyticsGenerateRetry(s) ==
    /\ At(s, "analytics.GET", "generate")
    /\ \E resp \in SuggestionResponses :
          req' = [req EXCEPT ![s] =
                    [@ EXCEPT !.pc = IF resp.kind = "json" THEN "update" ELSE "generate",
                              !.ai = @ + 1, !.resp = resp,
                              !.suggestions = generateContextualSuggestions(resp)]]
    /\ req[s].ai < 2
    /\ UNCHANGED <<page, messages, posts, users, nextId, clock, since>>
AnalyticsGenerate(s) ==
    /\ At(s, "analytics.GET", "generate")
    /\ \E resp \in SuggestionResponses :
          req' = [req EXCEPT ![s] =
                    [@ EXCEPT !.pc = "update", !.ai = @ + 1, !.resp = resp,
                              !.suggestions = generateContextualSuggestions(resp)]]
    /\ UNCHANGED <<page, messages, posts, users, nextId, clock, since>>

\* The document User.findByIdAndUpdate leaves: on a changed context the
\* hash, the time and the bundle; on the self-healing path the bundle only.
MissUpdateHashOnly(user, r, now) ==
    [user EXCEPT !.lastContextHash = r.hash, !.lastContextUpdatedAt = Date(now)]
MissUpdateKeepFirst(user, r, now) ==
    IF user.lastContextHash = NoText THEN UserDoc(r.hash, Date(now), r.suggestions)
    ELSE user
MissUpdate(user, r, now) == UserDoc(r.hash, Date(now), r.suggestions)
HealUpdate(user, r) == [user EXCEPT !.cachedSuggestions = r.suggestions]

AnalyticsUpdate(s) ==
    /\ At(s, "analytics.GET", "update")
    /\ LET r == req[s]
       IN  /\ users' = [users EXCEPT ![r.user] =
                          IF r.path = "miss" THEN MissUpdate(@, r, clock)
                          ELSE HealUpdate(@, r)]
           /\ req' = [req EXCEPT ![s] =
                        Respond([r EXCEPT !.wr = @ + 1], 200,
                                [r.body EXCEPT !.suggestions = r.suggestions])]
    /\ UNCHANGED <<page, messages, posts, nextId, clock, since>>

\* The earlier revision of the analytics GET: no suggestions.
StartAnalyticsOld(s, sess) ==
    /\ Free(s)
    /\ req' = [req EXCEPT ![s] =
                 IF sess = NoSession
                 THEN Respond(NewReq("analytics.GET", "old", sess), 401, Undefined)
                 ELSE [NewReq("analytics.GET", "old", sess) EXCEPT !.pc = "findPostsOld"]]
    /\ UNCHANGED <<page, messages, posts, users, nextId, clock, since>>

AnalyticsOldFindPosts(s) ==
    /\ At(s, "analytics.GET", "findPostsOld")
    /\ \E q \in SortedDesc(PostsOf(req[s].user)) :
          req' = [req EXCEPT ![s] =
                    IF Len(q) = 0 THEN Respond(@, 200, ZeroBodyOld)
                    ELSE Respond(@, 200, [Aggregates(q) EXCEPT !.posts = <<>>,
                                             !.missing = {"suggestions", "posts"}])]
    /\ UNCHANGED <<page, messages, posts, users, nextId, clock, since>>

\* ---------------------------------------------------- posts: GET handler
\* The id of the Entry saved last (0 when none has been saved).  In the
\* current revision of the create the save and the response are one step,
\* so it is the Entry of the last creation that has responded.
LastCreated == nextId - 1

\* A list request notes in `after` the last creation that had succeeded
\* when it started (history).
StartList(s, sess) ==
    /\ Free(s)
    /\ req' = [req EXCEPT ![s] =
                 IF sess = NoSession
                 THEN Respond(NewReq("posts.GET", "current", sess), 401, Undefined)
                 ELSE [NewReq("posts.GET", "current", sess)
                         EXCEPT !.pc = "find",
                                !.after = IF LastCreated = 0 THEN NoMutation
                                          ELSE Mutation("create", LastCreated)]]
    /\ UNCHANGED <<page, messages, posts, users, nextId, clock, since>>

\* Post.find({ userId: session.user.id }).sort({ createdAt: -1 })
ListQueryAscending(u) == SortedAsc(PostsOf(u))
ListQueryAll(u) == SortedDesc(posts)
ListQuery(u) == SortedDesc(PostsOf(u))

\* return NextResponse.json(posts)
ListFind(s) ==
    /\ At(s, "posts.GET", "find")
    /\ \E q \in ListQuery(req[s].user) :
          req' = [req EXCEPT ![s] = Respond(@, 200, [list |-> q])]
    /\ UNCHANGED <<page, messages, posts, users, nextId, clock, since>>

\* --------------------------------------------------- posts: POST handler
\* The form of a create request: whether the image and the caption are
\* present, and the tags field (absent, a JSON list, or no JSON).
Forms == [image : BOOLEAN, caption : BOOLEAN, tags : {"none", "json", "garbage"}]

\* if (!image || !caption) -> 400
FormInvalidImageOnly(form) == ~form.image
FormInvalid(form) == ~form.image \/ ~form.caption

\* The slots whose create request is between its validation and its save.
Creating == {t \in Slots : req[t].op = "posts.POST"
                              /\ req[t].pc \in {"upload", "analyze", "save"}}

\* rev "current": src/app/api/posts/route.ts; rev "context": the revision
\* that calls updateUserContext after the save.
StartPost(s, sess, rev, form) ==
    /\ Free(s)
    /\ (sess # NoSession /\ ~FormInvalid(form) /\ form.tags # "garbage")
          => nextId + Cardinality(Creating \ {s}) <= MaxPosts
    /\ req' = [req EXCEPT ![s] =
                 LET r == NewReq("posts.POST", rev, sess)
                 IN  IF sess = NoSession THEN Respond(r, 401, Undefined)
                     ELSE IF FormInvalid(form) THEN Respond(r, 400, Undefined)
                     ELSE IF form.tags = "garbage" THEN Respond(r, 500, Undefined)
                     ELSE [r EXCEPT !.pc = "upload"]]
    /\ UNCHANGED <<page, messages, posts, users, nextId, clock, since>>

\* cloudinary.uploader.upload_stream: resolves with the URL or rejects
PostUploadUnchecked(s) ==
    /\ At(s, "posts.POST", "upload")
    /\ \E ok \in BOOLEAN :
          req' = [req EXCEPT ![s] =
                    [@ EXCEPT !.pc = "analyze", !.up = IF ok THEN @ + 1 ELSE @]]
    /\ UNCHANGED <<page, messages, posts, users, nextId, clock, since>>
PostUpload(s) ==
    /\ At(s, "posts.POST", "upload")
    /\ \E ok \in BOOLEAN :
          req' = [req EXCEPT ![s] =
                    IF ok THEN [@ EXCEPT !.pc = "analyze", !.up = @ + 1]
                    ELSE Respond(@, 500, Undefined)]
    /\ UNCHANGED <<page, messages, posts, users, nextId, clock, since>>

\* const analysis = await analyzeMood(...).  The revision with
\* updateUserContext also calls generateSuggestions (a second AI call, with
\* its own catch) once the analysis is parsed; the Post schema has no path
\* for its result.
PostAnalyze(s) ==
    /\ At(s, "posts.POST", "analyze")
    /\ \E resp \in AnalysisResponses :
          req' = [req EXCEPT ![s] =
                    [@ EXCEPT !.pc = "save", !.resp = resp,
                              !.ai = @ + IF req[s].rev = "context" /\ resp.kind = "json"
                                         THEN 2 ELSE 1,
                              !.analysis = analyzeMood(resp)]]
    /\ UNCHANGED <<page, messages, posts, users, nextId, clock, since>>

\* new Post({userId, imageUrl, caption, ...analysis})
NewPost(id, u, t, a) ==
    [id |-> id, userId |-> u, createdAt |-> t,
     detailedMoodDescription |-> a.detailedMoodDescription,
     moodDescription |-> a.moodDescription,
     mentalHealthTraits |-> a.mentalHealthTraits,
     overallMood |-> a.overallMood]

\* await post.save(): validation, then the insert with the timestamps.
\* The current revision responds here; the context revision goes on to
\* updateUserContext.  A request takes more than a millisecond, so the
\* clock has advanced before the next save, unless that save belongs to a
\* request that is running at the same time.
PostSave(s) ==
    /\ At(s, "posts.POST", "save")
    /\ LET r == req[s]
       IN  IF ~PostValid(r.analysis)
           THEN /\ req' = [req EXCEPT ![s] = Respond(r, 500, Undefined)]
                /\ UNCHANGED <<posts, nextId, clock, since>>
           ELSE /\ posts' = posts \cup {NewPost(nextId, r.user, clock, r.analysis)}
                /\ nextId' = nextId + 1
                /\ \/ clock' = clock + 1
                   \/ clock' = clock /\ \E t \in Slots \ {s} : At(t, "posts.POST", "save")
                /\ req' = [req EXCEPT ![s] =
                             IF r.rev = "context"
                             THEN [r EXCEPT !.pc = "contextFind", !.postId = nextId,
                                            !.wr = @ + 1]
                             ELSE Respond([r EXCEPT !.postId = nextId, !.wr = @ + 1],
                                          200, NewPost(nextId, r.user, clock, r.analysis))]
                /\ since' = IF r.rev = "context" THEN since
                            ELSE Succeeded([r EXCEPT !.postId = nextId])
    /\ UNCHANGED <<page, messages, users>>

\* updateUserContext: Post.find({userId}).sort({createdAt: -1}).limit(3);
\* nothing is written when the Account has no Entry left.
ContextFind(s) ==
    /\ req[s].pc = "contextFind"
    /\ \E q \in SortedDesc(PostsOf(req[s].user)) :
          req' = [req EXCEPT ![s] =
                    IF Len(q) = 0 THEN Respond(@, 200, Undefined)
                    ELSE [@ EXCEPT !.pc = "contextUpdate",
                                   !.ctx = Ids(Slice(q, ContextSize)),
                                   !.hash = createContextHashPosts(Slice(q, ContextSize))]]
    /\ since' = IF PostsOf(req[s].user) = {} THEN Succeeded(req[s]) ELSE since
    /\ UNCHANGED <<page, messages, posts, users, nextId, clock>>

\* updateUserContext: User.findByIdAndUpdate(userId, {lastContextHash, lastContextUpdatedAt})
ContextUpdate(s) ==
    /\ req[s].pc = "contextUpdate"
    /\ users' = [users EXCEPT ![req[s].user] =
                   [@ EXCEPT !.lastContextHash = req[s].hash,
                             !.lastContextUpdatedAt = Date(clock)]]
    /\ req' = [req EXCEPT ![s] = Respond([@ EXCEPT !.wr = @ + 1], 200, Undefined)]
    /\ since' = Succeeded(req[s])
    /\ UNCHANGED <<page, messages, posts, nextId, clock>>

\* ------------------------------------------------- posts: DELETE handlers
\* rev "current": src/app/api/posts/[id]/route.ts (clears the cache);
\* rev "old": the earlier [id] route (no cache handling);
\* rev "query": DELETE of the posts route (?id=, updateUserContext).
PostIds == 0..MaxPosts

StartDelete(s, sess, rev, id) ==
    /\ Free(s)
    /\ req' = [req EXCEPT ![s] =
                 LET r == [NewReq("posts.DELETE", rev, sess) EXCEPT !.postId = id]
                 IN  IF sess = NoSession THEN Respond(r, 401, Undefined)
                     ELSE IF rev = "query" /\ id = 0 THEN Respond(r, 400, Undefined)
                     ELSE [r EXCEPT !.pc = IF rev = "query" THEN "findOneAndDelete"
                                            ELSE "findOne"]]
    /\ UNCHANGED <<page, messages, posts, users, nextId, clock, since>>

\* Post.findOne({_id: postId, userId: session.user.id})
FindOwnedAnyOwner(id, u) == {p \in posts : p.id = id}
FindOwned(id, u) == {p \in posts : p.id = id /\ p.userId = u}

DeleteFindOne(s) ==
    /\ At(s, "posts.DELETE", "findOne")
    /\ req' = [req EXCEPT ![s] =
                 IF FindOwned(req[s].postId, req[s].user) = {}
                 THEN Respond(@, 404, Undefined)
                 ELSE [@ EXCEPT !.pc = "delete"]]
    /\ UNCHANGED <<page, messages, posts, users, nextId, clock, since>>

\* Post.findByIdAndDelete(postId)
DeleteById(s) ==
    /\ At(s, "posts.DELETE", "delete")
    /\ posts' = {p \in posts : p.id # req[s].postId}
    /\ req' = [req EXCEPT ![s] =
                 IF req[s].rev = "old"
                 THEN Respond([@ EXCEPT !.wr = @ + 1], 200, Undefined)
                 ELSE [@ EXCEPT !.pc = "clear", !.wr = @ + 1]]
    /\ since' = IF req[s].rev = "old" THEN Succeeded(req[s]) ELSE since
    /\ UNCHANGED <<page, messages, users, nextId, clock>>

\* User.findByIdAndUpdate(id, {$unset: {lastContextHash, lastContextUpdatedAt,
\* cachedSuggestions}})
UnsetContext(user) == FreshUser

ClearCache(s) ==
    /\ req[s].pc = "clear"
    /\ users' = [users EXCEPT ![req[s].user] = UnsetContext(@)]
    /\ req' = [req EXCEPT ![s] = Respond([@ EXCEPT !.wr = @ + 1], 200, Undefined)]
    /\ since' = Succeeded(req[s])
    /\ UNCHANGED <<page, messages, posts, nextId, clock>>

\* Post.findOneAndDelete({_id: postId, userId: session.user.id})
DeleteFindOneAndDelete(s) ==
    /\ At(s, "posts.DELETE", "findOneAndDelete")
    /\ LET found == FindOwned(req[s].postId, req[s].user)
       IN  /\ posts' = posts \ found
           /\ req' = [req EXCEPT ![s] =
                        IF found = {} THEN Respond(@, 404, Undefined)
                        ELSE [@ EXCEPT !.pc = "contextFind", !.wr = @ + 1]]
    /\ UNCHANGED <<page, messages, users, nextId, clock, since>>

\* ------------------------------------------- debug/clear-cache: POST
StartClearCache(s, sess) ==
    /\ Free(s)
    /\ req' = [req EXCEPT ![s] =
                 IF sess = NoSession
                 THEN Respond(NewReq("debug.POST", "current", sess), 401, Undefined)
                 ELSE [NewReq("debug.POST", "current", sess) EXCEPT !.pc = "clear"]]
    /\ UNCHANGED <<page, messages, posts, users, nextId, clock, since>>

\* ------------------------------------------------------ chat: handlers
\* A ChatMessage document, as the POST handler constructs it; the datastore
\* numbers the documents of the append-only log.
ChatMessage(id, u, role, content, t) ==
    [id |-> id, userId |-> u, role |-> role, content |-> content, timestamp |-> t]

\* The ChatMessage schema: a role (user or assistant), a text content and a
\* timestamp; the schema source is not among the files, the content is
\* taken to be any text.
ChatMessageAccepted(m) == m.role \in {"user", "assistant"}

MessagesOf(u) == {m \in messages : m.userId = u}

\* .sort({timestamp: 1}) and .sort({timestamp: -1}): documents with equal
\* timestamps come in any order.
RECURSIVE OrderedByTimestamp(_, _)
\* The sequences of the documents S in which sign * timestamp does not
\* decrease: a document that no other precedes, then the rest.
OrderedByTimestamp(S, sign) ==
    IF S = {} THEN {<<>>}
    ELSE UNION {{<<x>> \o q : q \in OrderedByTimestamp(S \ {x}, sign)}
                  : x \in {m \in S : \A o \in S :
                                       sign * m.timestamp <= sign * o.timestamp}}
ByTimestampAsc(S) == OrderedByTimestamp(S, 1)
ByTimestampDesc(S) == OrderedByTimestamp(S, -1)

HistoryLimit == 50
ChatHistorySize == 10

\* GET: the session check
StartChatHistory(s, sess) ==
    /\ Free(s)
    /\ req' = [req EXCEPT ![s] =
                 IF sess = NoSession
                 THEN Respond(NewReq("chat.GET", "current", sess), 401, Undefined)
                 ELSE [NewReq("chat.GET", "current", sess) EXCEPT !.pc = "findMessages"]]
    /\ UNCHANGED <<page, messages, posts, users, nextId, clock, since>>

\* GET: ChatMessage.find({userId}).sort({timestamp: 1}).limit(50)
ChatHistoryFind(s) ==
    /\ At(s, "chat.GET", "findMessages")
    /\ \E q \in ByTimestampAsc(MessagesOf(req[s].user)) :
          req' = [req EXCEPT ![s] = Respond(@, 200, [list |-> Slice(q, HistoryLimit)])]
    /\ UNCHANGED <<page, messages, posts, users, nextId, clock, since>>

\* The body of a chat POST: no JSON at all, or a JSON object whose `message`
\* is absent, a string (a sequence of code units) or a number.
NoJson == [type |-> "garbage"]
StringValue(text) == [type |-> "string", text |-> text]
NumberValue(n) == [type |-> "number", value |-> n]
Space == 32
ChatBodies ==
    {NoJson, Undefined, NumberValue(0), NumberValue(7),
     StringValue(<<>>), StringValue(<<Space>>), StringValue(<<104, 105>>)}

\* if (!message || typeof message !== 'string') -> 400
MessageInvalidIfAbsent(message) == message = Undefined
MessageInvalid(message) ==
    \/ message = Undefined
    \/ message.type = "number"
    \/ message.type = "string" /\ Len(message.text) = 0

\* The chat posts that have passed validation and have not responded.
Chatting == {t \in Slots : req[t].op = "chat.POST" /\ req[t].pc \notin {"idle", "done"}}

\* The messages ever persisted are bounded.
MaxMessages == 4

\* POST: the session check, request.json() and the validation
StartChatUngated(s, sess, body) ==
    /\ Free(s)
    /\ req' = [req EXCEPT ![s] =
                 LET r == NewReq("chat.POST", "current", sess)
                 IN  IF body = NoJson THEN Respond(r, 500, Undefined)
                     ELSE IF MessageInvalid(body)
                     THEN Respond([r EXCEPT !.message = body], 400, Undefined)
                     ELSE [r EXCEPT !.pc = "saveUser", !.message = body]]
    /\ UNCHANGED <<page, messages, posts, users, nextId, clock, since>>
StartChat(s, sess, body) ==
    /\ Free(s)
    /\ (sess # NoSession /\ body # NoJson /\ ~MessageInvalid(body))
          => Cardinality(messages) + 2 * Cardinality(Chatting \ {s}) + 2 <= MaxMessages
    /\ req' = [req EXCEPT ![s] =
                 LET r == NewReq("chat.POST", "current", sess)
                 IN  IF sess = NoSession THEN Respond(r, 401, Undefined)
                     ELSE IF body = NoJson THEN Respond(r, 500, Undefined)
                     ELSE IF MessageInvalid(body)
                     THEN Respond([r EXCEPT !.message = body], 400, Undefined)
                     ELSE [r EXCEPT !.pc = "saveUser", !.message = body]]
    /\ UNCHANGED <<page, messages, posts, users, nextId, clock, since>>

\* POST 1: new ChatMessage({userId, role: 'user', content: message,
\* timestamp: new Date()}); await userMessage.save()
ChatSaveUserSkipped(s) ==
    /\ At(s, "chat.POST", "saveUser")
    /\ req' = [req EXCEPT ![s] = [@ EXCEPT !.pc = "findPosts"]]
    /\ UNCHANGED <<page, messages, posts, users, nextId, clock, since>>
ChatSaveUser(s) ==
    /\ At(s, "chat.POST", "saveUser")
    /\ LET userMessage ==
               ChatMessage(Cardinality(messages) + 1, req[s].user, "user",
                           req[s].message.text, clock)
       IN  IF ChatMessageAccepted(userMessage)
           THEN /\ messages' = messages \cup {userMessage}
                /\ req' = [req EXCEPT ![s] =
                             [@ EXCEPT !.pc = "findPosts", !.wr = @ + 1]]
           ELSE /\ messages' = messages
                /\ req' = [req EXCEPT ![s] = Respond(@, 500, Undefined)]
    /\ UNCHANGED <<page, posts, users, nextId, clock, since>>

\* POST 2: Post.find({userId}).sort({createdAt: -1}).limit(3)
ChatFindPosts(s) ==
    /\ At(s, "chat.POST", "findPosts")
    /\ \E q \in SortedDesc(PostsOf(req[s].user)) :
          req' = [req EXCEPT ![s] =
                    [@ EXCEPT !.pc = "findHistory", !.ctx = Ids(Slice(q, ContextSize))]]
    /\ UNCHANGED <<page, messages, posts, users, nextId, clock, since>>

\* POST 3: ChatMessage.find({userId}).sort({timestamp: -1}).limit(10), and
\* chatHistory.reverse()
ChatFindHistory(s) ==
    /\ At(s, "chat.POST", "findHistory")
    /\ \E q \in ByTimestampDesc(MessagesOf(req[s].user)) :
          req' = [req EXCEPT ![s] =
                    [@ EXCEPT !.pc = "generate",
                              !.history = Ids(Reverse(Slice(q, ChatHistorySize)))]]
    /\ UNCHANGED <<page, messages, posts, users, nextId, clock, since>>

\* "I'm here to help with your mental health journey. How are you feeling today?"
FallbackReply == <<73>>

\* What the chat model call can produce: the call (or text()) throws, or
\* text() returns a text, which may be empty or blank.
ChatResponses ==
    {[kind |-> "throw"]} \cup
    {[kind |-> "text", text |-> t] :
        t \in {<<>>, <<Space>>, <<Space, 79, 107, Space>>}}

RECURSIVE TrimStart(_)
TrimStart(t) == IF Len(t) > 0 /\ t[1] = Space THEN TrimStart(Tail(t)) ELSE t

RECURSIVE TrimEnd(_)
TrimEnd(t) == IF Len(t) > 0 /\ t[Len(t)] = Space
              THEN TrimEnd(SubSeq(t, 1, Len(t) - 1)) ELSE t

\* String.prototype.trim
Trim(t) == TrimEnd(TrimStart(t))

\* generateAIResponse: the trimmed text, or the fallback from the catch
\* block (also when text() is empty: `if (!response) throw`).
generateAIResponseRethrow(resp) ==
    IF resp.kind = "text" THEN Trim(resp.text) ELSE <<>>
generateAIResponse(resp) ==
    IF resp.kind = "text" /\ Len(resp.text) > 0 THEN Trim(resp.text)
    ELSE FallbackReply

\* POST 4: const aiResponse = await generateAIResponse(...).  The call takes
\* time: the clock may have advanced when it returns.
ChatGenerate(s) ==
    /\ At(s, "chat.POST", "generate")
    /\ \E resp \in ChatResponses :
          req' = [req EXCEPT ![s] =
                    [@ EXCEPT !.pc = "saveAssistant", !.ai = @ + 1, !.resp = resp,
                              !.reply = generateAIResponse(resp)]]
    /\ clock' \in {clock, clock + 1}
    /\ UNCHANGED <<page, messages, posts, users, nextId, since>>

\* POST 5: new ChatMessage({userId, role: 'assistant', content: aiResponse,
\* timestamp: new Date()}); await assistantMessage.save(); the response
ChatSaveAssistantInPlace(s) ==
    /\ At(s, "chat.POST", "saveAssistant")
    /\ LET assistantMessage ==
               ChatMessage(Cardinality(messages), req[s].user, "assistant",
                           req[s].reply, clock)
       IN  /\ messages' = {m \in messages : m.id # assistantMessage.id}
                              \cup {assistantMessage}
           /\ req' = [req EXCEPT ![s] =
                        Respond([@ EXCEPT !.wr = @ + 1], 200, assistantMessage)]
    /\ UNCHANGED <<page, posts, users, nextId, clock, since>>
ChatSaveAssistant(s) ==
    /\ At(s, "chat.POST", "saveAssistant")
    /\ LET assistantMessage ==
               ChatMessage(Cardinality(messages) + 1, req[s].user, "assistant",
                           req[s].reply, clock)
       IN  IF ChatMessageAccepted(assistantMessage)
           THEN /\ messages' = messages \cup {assistantMessage}
                /\ req' = [req EXCEPT ![s] =
                             Respond([@ EXCEPT !.wr = @ + 1], 200, assistantMessage)]
           ELSE /\ messages' = messages
                /\ req' = [req EXCEPT ![s] = Respond(@, 500, Undefined)]
    /\ UNCHANGED <<page, posts, users, nextId, clock, since>>

\* POST: a datastore call made after the user message was saved (the two
\* find queries, the save of the assistant message) rejects, and the catch
\* of the handler responds 500.
ChatDatastoreRejects(s) ==
    /\ req[s].op = "chat.POST"
    /\ req[s].pc \in {"findPosts", "findHistory", "saveAssistant"}
    /\ req' = [req EXCEPT ![s] = Respond(@, 500, Undefined)]
    /\ UNCHANGED <<page, messages, posts, users, nextId, clock, since>>

\* ------------------------------------------------------ chat: the page
\* The page of Account 1.  Its GET /api/chat is served in slot 1 and its
\* POST /api/chat in slot 2.
MaxSends == 2

\* The texts the user types into the input.
Inputs == {<<>>, <<Space>>, <<104, 105>>, <<Space, 79, 107>>}

\* useEffect on status 'authenticated': fetchChatHistory() up to its fetch
PageFetchHistory ==
    /\ page.history = "none"
    /\ page' = [page EXCEPT !.isLoadingHistory = TRUE, !.history = "sent"]
    /\ UNCHANGED <<messages, posts, users, nextId, clock, req, since>>

\* fetchChatHistory() from the response on: setMessages(data || []) when the
\* response is ok; finally setIsLoadingHistory(false)
PageHistoryResponse ==
    /\ page.history = "sent"
    /\ At(1, "chat.GET", "done")
    /\ page' = [page EXCEPT !.messages = IF req[1].status = 200
                                         THEN req[1].body.list ELSE @,
                            !.isLoadingHistory = FALSE,
                            !.history = "received"]
    /\ UNCHANGED <<messages, posts, users, nextId, clock, req, since>>

\* sendMessage up to its fetch: the guard, the optimistic user message (it
\* has no _id), setInputMessage(''), setIsLoading(true)
PageSendUnguarded(inputMessage) ==
    /\ Trim(inputMessage) # <<>>
    /\ page.sends < MaxSends
    /\ page' = [page EXCEPT
                  !.messages = Append(@, ChatMessage(0, 1, "user", Trim(inputMessage), clock)),
                  !.isLoading = TRUE,
                  !.send = "sent", !.sends = @ + 1, !.inFlight = @ + 1,
                  !.before = page.messages,
                  !.sent = ChatMessage(0, 1, "user", Trim(inputMessage), clock)]
    /\ req' = [req EXCEPT ![2] = IdleReq]
    /\ UNCHANGED <<messages, posts, users, nextId, clock, since>>
PageSend(inputMessage) ==
    /\ ~(Trim(inputMessage) = <<>> \/ page.isLoading)
    /\ page.sends < MaxSends
    /\ page' = [page EXCEPT
                  !.messages = Append(@, ChatMessage(0, 1, "user", Trim(inputMessage), clock)),
                  !.isLoading = TRUE,
                  !.send = "sent", !.sends = @ + 1, !.inFlight = @ + 1,
                  !.before = page.messages,
                  !.sent = ChatMessage(0, 1, "user", Trim(inputMessage), clock)]
    /\ req' = [req EXCEPT ![2] = IdleReq]
    /\ UNCHANGED <<messages, posts, users, nextId, clock, since>>

\* sendMessage from the response on: the reply is appended when the
\* response is ok, else prev.slice(0, -1); finally setIsLoading(false)
PageSendResponse ==
    /\ page.send = "sent"
    /\ At(2, "chat.POST", "done")
    /\ page' = [page EXCEPT
                  !.messages = IF req[2].status = 200
                               THEN Append(@, req[2].body)
                               ELSE SubSeq(@, 1, Len(@) - 1),
                  !.isLoading = FALSE,
                  !.send = "none", !.inFlight = @ - 1]
    /\ UNCHANGED <<messages, posts, users, nextId, clock, req, since>>

\* ------------------------------------------------- auth: credentials
\* The stored password of an Account is a bcrypt hash (or is absent);
\* bcrypt.compare(password, hash) tells whether the hash is one of that
\* password.
BcryptHash(password) == [bcrypt |-> password]
BcryptCompare(password, hash) == hash = BcryptHash(password)

\* The User documents as the credentials provider reads them: Accounts 1
\* and 2 with a password hash, a third document without one.
AccountIds == Users \cup {3}
Accounts ==
    [a \in AccountIds |->
        [email |-> <<96 + a>>,
         name |-> <<64 + a>>,
         password |-> IF a \in Users THEN BcryptHash(<<112, 48 + a>>) ELSE Undefined]]

\* The credentials a caller can submit: none at all, or an email and a
\* password, each absent or a text.
CredentialValues(texts) == {Undefined} \cup {StringValue(t) : t \in texts}
Credentials ==
    {Undefined} \cup
    [email : CredentialValues({<<>>, <<97>>, <<98>>, <<99>>, <<65>>}),
     password : CredentialValues({<<>>, <<112, 49>>, <<112, 50>>})]

\* !credentials?.email and !credentials?.password
Falsy(v) == v = Undefined \/ v.text = <<>>

\* User.findOne({ email: credentials.email })
FindByEmail(email) == {a \in AccountIds : Accounts[a].email = email}

\* user._id.toString(), and the cast back that a query on userId makes
ObjectIdToString(id) == NumToString(id)
CastObjectId(t) == CHOOSE id \in AccountIds : ObjectIdToString(id) = t

Null == [null |-> TRUE]

\* authorize(credentials): the identity, or null
authorizeAnyPassword(credentials) ==
    IF credentials = Undefined THEN Null
    ELSE IF Falsy(credentials.email) \/ Falsy(credentials.password) THEN Null
    ELSE LET found == FindByEmail(credentials.email.text)
         IN  IF found = {} THEN Null
             ELSE LET id == CHOOSE a \in found : TRUE
                      user == Accounts[id]
                  IN  IF user.password = Undefined THEN Null
                      ELSE [id |-> ObjectIdToString(id), email |-> user.email,
                            name |-> user.name]
authorize(credentials) ==
    IF credentials = Undefined THEN Null
    ELSE IF Falsy(credentials.email) \/ Falsy(credentials.password) THEN Null
    ELSE LET found == FindByEmail(credentials.email.text)
         IN  IF found = {} THEN Null
             ELSE LET id == CHOOSE a \in found : TRUE
                      user == Accounts[id]
                  IN  IF user.password = Undefined THEN Null
                      ELSE IF ~BcryptCompare(credentials.password.text, user.password)
                      THEN Null
                      ELSE [id |-> ObjectIdToString(id), email |-> user.email,
                            name |-> user.name]

\* callbacks.jwt: if (user) token.id = user.id
JwtCallback(token, user) == IF user = Null THEN token ELSE [token EXCEPT !.id = user.id]

\* callbacks.session: if (token && token.id) session.user.id = token.id
SessionCallback(session, token) ==
    IF token.id = NoText THEN session ELSE [session EXCEPT !.id = token.id]

\* A sign-in: authorize, and on success the token and the session the two
\* callbacks build from an empty token and session.  The request keeps the
\* credentials (message), the identity (body) and the session's user id
\* (reply, empty when there is no session).
SignIn(s, credentials) ==
    /\ Free(s)
    /\ LET user == authorize(credentials)
           token == JwtCallback([id |-> NoText], user)
           session == SessionCallback([id |-> NoText], token)
       IN  req' = [req EXCEPT ![s] =
                     Respond([NewReq("auth.authorize", "current", NoSession)
                                EXCEPT !.message = credentials,
                                       !.reply = IF user = Null THEN NoText
                                                 ELSE session.id],
                             IF user = Null THEN 401 ELSE 200, user)]
    /\ UNCHANGED <<page, messages, posts, users, nextId, clock, since>>

\* The user id of the session the caller of slot s holds after its last
\* sign-in: getServerSession(authOptions).user.id, cast by the queries.
SessionOf(s) ==
    IF req[s].op = "auth.authorize" /\ req[s].reply # NoText
    THEN CastObjectId(req[s].reply)
    ELSE NoSession

\* ------------------------------------------------------------ the system
Sessions == Users \cup {NoSession}

Init ==
    /\ posts = {}
    /\ users = [u \in Users |-> FreshUser]
    /\ messages = {}
    /\ page = FreshPage
    /\ nextId = 1
    /\ clock = 0
    /\ req = [s \in Slots |-> IdleReq]
    /\ since = [u \in Users |-> NoMutation]

\* The handlers a request slot can run, for callers with the sessions S.
AnalyticsSteps(s, S) ==
    \/ \E sess \in S : StartAnalytics(s, sess)
    \/ AnalyticsFindPosts(s)
    \/ AnalyticsFindUser(s)
    \/ AnalyticsGenerate(s)
    \/ AnalyticsUpdate(s)

AnalyticsOldSteps(s, S) ==
    \/ \E sess \in S : StartAnalyticsOld(s, sess)
    \/ AnalyticsOldFindPosts(s)

PostSteps(s, S, R) ==
    \/ \E sess \in S, rev \in R, form \in Forms : StartPost(s, sess, rev, form)
    \/ PostUpload(s)
    \/ PostAnalyze(s)
    \/ PostSave(s)

ContextSteps(s) ==
    \/ ContextFind(s)
    \/ ContextUpdate(s)

DeleteSteps(s, S, R, I) ==
    \/ \E sess \in S, rev \in R, id \in I : StartDelete(s, sess, rev, id)
    \/ DeleteFindOne(s)
    \/ DeleteById(s)

DeleteQuerySteps(s, S) ==
    \/ \E sess \in S, id \in PostIds : StartDelete(s, sess, "query", id)
    \/ DeleteFindOneAndDelete(s)

ListSteps(s, S) ==
    \/ \E sess \in S : StartList(s, sess)
    \/ ListFind(s)

ChatHistorySteps(s, S) ==
    \/ \E sess \in S : StartChatHistory(s, sess)
    \/ ChatHistoryFind(s)

ChatSteps(s, S) ==
    \/ \E sess \in S, body \in ChatBodies : StartChat(s, sess, body)
    \/ ChatSaveUser(s)
    \/ ChatFindPosts(s)
    \/ ChatFindHistory(s)
    \/ ChatGenerate(s)
    \/ ChatSaveAssistant(s)

ClearCacheSteps(s, S) ==
    \E sess \in S : StartClearCache(s, sess)

\* One request at a time, one Account, the current revision of every handler.
Next ==
    \/ AnalyticsSteps(1, {1, NoSession})
    \/ PostSteps(1, {1, NoSession}, {"current"})
    \/ DeleteSteps(1, {1, NoSession}, {"current"}, PostIds)
    \/ ClearCacheSteps(1, {1, NoSession})
    \/ ClearCache(1)

Spec == Init /\ [][Next]_vars

\* One request at a time, one Account, both revisions of the create.
NextCreate ==
    \/ AnalyticsSteps(1, {1})
    \/ PostSteps(1, {1}, {"current", "context"})
    \/ ContextSteps(1)
    \/ DeleteSteps(1, {1}, {"current"}, PostIds)
    \/ ClearCache(1)

SpecCreate == Init /\ [][NextCreate]_vars

\* One request at a time, one Account, the earlier revisions of the handlers
\* next to the current analytics read.
NextRevisions ==
    \/ AnalyticsSteps(1, {1})
    \/ AnalyticsOldSteps(1, {1, NoSession})
    \/ PostSteps(1, {1}, {"context"})
    \/ ContextSteps(1)
    \/ DeleteSteps(1, {1}, {"old"}, PostIds)
    \/ DeleteQuerySteps(1, {1, NoSession})

SpecRevisions == Init /\ [][NextRevisions]_vars

\* One request at a time, two Accounts that create Entries and read their
\* analytics; Account 2 sends the deletes (of its own Entries, of those of
\* Account 1, of ids that do not exist), in every revision of the delete.
\* OwnerPosts bounds the Entries created.
OwnerPosts == 2

NextOwner ==
    \/ AnalyticsSteps(1, Users)
    \/ (nextId <= OwnerPosts /\ PostSteps(1, Users, {"current"}))
    \/ DeleteSteps(1, {2}, {"current", "old"}, PostIds)
    \/ ClearCache(1)
    \/ DeleteQuerySteps(1, {2})
    \/ ContextSteps(1)

SpecOwner == Init /\ [][NextOwner]_vars

\* Concurrent analytics reads and deletes (of the oldest and of the newest
\* Entry) of one Account that has created MaxPosts Entries, one request
\* after the other, before.
InitRace ==
    /\ posts = {NewPost(i, 1, i - 1, analyzeMood([kind |-> "json", obj |-> CalmAnalysis]))
                  : i \in 1..MaxPosts}
    /\ users = [u \in Users |-> FreshUser]
    /\ messages = {}
    /\ page = FreshPage
    /\ nextId = MaxPosts + 1
    /\ clock = MaxPosts
    /\ req = [s \in Slots |-> IdleReq]
    /\ since = [u \in Users |-> NoMutation]

NextRace ==
    \E s \in Slots :
        \/ AnalyticsSteps(s, {1})
        \/ DeleteSteps(s, {1}, {"current"}, {1, MaxPosts})
        \/ ClearCache(s)

SpecRace == InitRace /\ [][NextRace]_vars

\* Concurrent creates, deletes and lists of one Account.  ListPosts bounds
\* the Entries created.
ListPosts == 2

NextList ==
    \E s \in Slots :
        \/ ListSteps(s, {1})
        \/ (nextId + Cardinality(Creating \ {s}) <= ListPosts
              /\ \E form \in Forms : StartPost(s, 1, "current", form))
        \/ PostUpload(s)
        \/ PostAnalyze(s)
        \/ PostSave(s)
        \/ DeleteSteps(s, {1}, {"current"}, PostIds)
        \/ ClearCache(s)

SpecList == Init /\ [][NextList]_vars

\* One request at a time, two Accounts that create, delete (their own
\* Entries and, in vain, those of the other) and list.
NextShared ==
    \/ ListSteps(1, Users)
    \/ PostSteps(1, Users, {"current"})
    \/ DeleteSteps(1, Users, {"current"}, PostIds)
    \/ ClearCache(1)

SpecShared == Init /\ [][NextShared]_vars

\* Concurrent chat posts and history reads of one Account that has two
\* Entries.
InitChat ==
    /\ posts = {NewPost(i, 1, i - 1, analyzeMood([kind |-> "json", obj |-> CalmAnalysis]))
                  : i \in 1..2}
    /\ users = [u \in Users |-> FreshUser]
    /\ messages = {}
    /\ page = FreshPage
    /\ nextId = 3
    /\ clock = 2
    /\ req = [s \in Slots |-> IdleReq]
    /\ since = [u \in Users |-> NoMutation]

NextChat ==
    \E s \in Slots :
        \/ ChatSteps(s, {1})
        \/ ChatHistorySteps(s, {1})

SpecChat == InitChat /\ [][NextChat]_vars

\* One request at a time, with and without a session, every handler.
\* GatePosts bounds the creates that pass validation; a chat post with a
\* session starts on an empty log.
GatePosts == 1

NextGate ==
    \/ ListSteps(1, {1, NoSession})
    \/ \E sess \in {1, NoSession}, form \in Forms :
          /\ (sess # NoSession /\ ~FormInvalid(form)) => nextId <= GatePosts
          /\ StartPost(1, sess, "current", form)
    \/ PostUpload(1)
    \/ PostAnalyze(1)
    \/ PostSave(1)
    \/ DeleteSteps(1, {1, NoSession}, {"current"}, PostIds)
    \/ ClearCacheSteps(1, {1, NoSession})
    \/ ClearCache(1)
    \/ AnalyticsSteps(1, {1, NoSession})
    \/ ChatHistorySteps(1, {1, NoSession})
    \/ \E sess \in {1, NoSession}, body \in ChatBodies :
          (sess # NoSession => messages = {}) /\ StartChat(1, sess, body)
    \/ ChatSaveUser(1)
    \/ ChatFindPosts(1)
    \/ ChatFindHistory(1)
    \/ ChatGenerate(1)
    \/ ChatSaveAssistant(1)

SpecGate == Init /\ [][NextGate]_vars

\* Analytics reads of an Account whose Entries carry any of a few trait
\* scores.  AvgPosts bounds the Entries.
AvgPosts == 4
Scores == {1, 4, 6, 8, 10}

\* The Entry a create stores when the analysis gives the score v (and 10 - v
\* for depression).
ScoredPost(id, v) ==
    NewPost(id, 1, id - 1,
            analyzeMood([kind |-> "json",
                         obj |-> [CalmAnalysis EXCEPT
                                    !.mentalHealthTraits = Traits(v, 10 - v, v, v, v, v)]]))

InitAverages ==
    /\ \E n \in 1..AvgPosts : \E score \in [1..n -> Scores] :
          /\ posts = {ScoredPost(i, score[i]) : i \in 1..n}
          /\ nextId = n + 1
          /\ clock = n
    /\ users = [u \in Users |-> FreshUser]
    /\ messages = {}
    /\ page = FreshPage
    /\ req = [s \in Slots |-> IdleReq]
    /\ since = [u \in Users |-> NoMutation]

NextAverages == AnalyticsSteps(1, {1})

SpecAverages == InitAverages /\ [][NextAverages]_vars

\* A caller signs in (slot 2) and lists Entries and reads the chat history
\* (slot 1) with the session of its last sign-in; Account 1 has two Entries.
NextAuth ==
    \/ \E credentials \in Credentials : SignIn(2, credentials)
    \/ ListSteps(1, {SessionOf(2)})
    \/ ChatHistorySteps(1, {SessionOf(2)})

SpecAuth == InitChat /\ [][NextAuth]_vars

\* History reads of an Account whose log holds the messages of a number of
\* chat posts, up to ExtraPosts posts more than fill the limit of the read.
ExtraPosts == 2

\* The log after n chat posts served one after the other: a user message
\* and the assistant's reply of each, a millisecond apart.
LogOf(n) ==
    UNION {{ChatMessage(2 * k - 1, 1, "user", <<104, 105>>, 2 * k - 1),
            ChatMessage(2 * k, 1, "assistant", FallbackReply, 2 * k)} : k \in 1..n}

InitHistory ==
    /\ \E n \in 0..(HistoryLimit \div 2 + ExtraPosts) :
          messages = LogOf(n) /\ clock = 2 * n + 1
    /\ page = FreshPage
    /\ posts = {}
    /\ users = [u \in Users |-> FreshUser]
    /\ nextId = 1
    /\ req = [s \in Slots |-> IdleReq]
    /\ since = [u \in Users |-> NoMutation]

NextHistory == ChatHistorySteps(1, {1, NoSession})

SpecHistory == InitHistory /\ [][NextHistory]_vars

\* Analytics reads of an Account with up to ExtraEntries Entries more than
\* the trend window holds; the Entry with id i has the score i modulo 11.
ExtraEntries == 2

InitTrends ==
    /\ \E n \in 1..(TrendWindow + ExtraEntries) :
          /\ posts = {ScoredPost(i, i % 11) : i \in 1..n}
          /\ nextId = n + 1
          /\ clock = n
    /\ users = [u \in Users |-> FreshUser]
    /\ messages = {}
    /\ page = FreshPage
    /\ req = [s \in Slots |-> IdleReq]
    /\ since = [u \in Users |-> NoMutation]

NextTrends == AnalyticsSteps(1, {1})

SpecTrends == InitTrends /\ [][NextTrends]_vars

\* Chat posts and history reads of one Account, one request at a time, with
\* a datastore whose calls can reject.
NextChatFaults ==
    \/ ChatSteps(1, {1, NoSession})
    \/ ChatHistorySteps(1, {1})
    \/ ChatDatastoreRejects(1)

SpecChatFaults == InitChat /\ [][NextChatFaults]_vars

\* The chat page of Account 1 and the chat handlers that serve it: the
\* history read in slot 1 and the chat posts in slot 2, with a datastore
\* whose calls can reject.  The log is empty or holds one earlier post.
InitPage ==
    /\ \E n \in 0..1 : messages = LogOf(n)
    /\ page = FreshPage
    /\ posts = {}
    /\ users = [u \in Users |-> FreshUser]
    /\ nextId = 1
    /\ clock = 3
    /\ req = [s \in Slots |-> IdleReq]
    /\ since = [u \in Users |-> NoMutation]

NextPage ==
    \/ PageFetchHistory
    \/ (page.history = "sent" /\ req[1].pc = "idle" /\ StartChatHistory(1, 1))
    \/ ChatHistoryFind(1)
    \/ PageHistoryResponse
    \/ \E inputMessage \in Inputs : PageSend(inputMessage)
    \/ (page.send = "sent" /\ req[2].pc = "idle"
           /\ StartChat(2, 1, StringValue(page.sent.content)))
    \/ ChatSaveUser(2)
    \/ ChatFindPosts(2)
    \/ ChatFindHistory(2)
    \/ ChatGenerate(2)
    \/ ChatSaveAssistant(2)
    \/ ChatDatastoreRejects(2)
    \/ PageSendResponse

SpecPage == InitPage /\ [][NextPage]_vars

\* One request at a time for one Account: creates, deletes, cache clears
\* and analytics reads in slot 1, and in slot 2 one analytics read, which
\* starts when the last request served was an analytics read of slot 1 that
\* found an Entry.  TwicePosts bounds the Entries created.
TwicePosts == 2

\* The request in slot 1 is a finished analytics read of Account 1 that
\* found an Entry.
FirstRead ==
    /\ req[1].op = "analytics.GET" /\ req[1].rev = "current" /\ req[1].user = 1
    /\ req[1].pc = "done" /\ req[1].status = 200 /\ req[1].path # "none"

NextTwice ==
    \/ /\ Free(2)
       /\ \/ AnalyticsSteps(1, {1})
          \/ (nextId <= TwicePosts /\ PostSteps(1, {1}, {"current"}))
          \/ DeleteSteps(1, {1}, {"current"}, PostIds)
          \/ ClearCacheSteps(1, {1})
          \/ ClearCache(1)
    \/ (FirstRead /\ req[2].pc = "idle" /\ StartAnalytics(2, 1))
    \/ AnalyticsFindPosts(2)
    \/ AnalyticsFindUser(2)
    \/ AnalyticsGenerate(2)
    \/ AnalyticsUpdate(2)

SpecTwice == Init /\ [][NextTwice]_vars

\* ================================================================ claims
\* The fingerprints of the Account's current three most recent Entries,
\* newest first (one value unless two Entries have the same creation time).
CurrentFingerprints(u) ==
    {createContextHashAnalytics(Slice(q, ContextSize)) : q \in SortedDesc(PostsOf(u))}

\* The analytics read in slot s looks up the Account and decides.
Decides(s) ==
    /\ req[s].op = "analytics.GET" /\ req[s].rev = "current"
    /\ req[s].pc = "findUser" /\ req'[s].pc # "findUser"

\* The read serves the cached bundle / regenerates the bundle.
Serves(s) == req'[s].pc = "done" /\ req'[s].status = 200
                /\ req'[s].body.suggestions = users[req[s].user].cachedSuggestions
Regenerates(s) == req'[s].pc = "generate"

\* A stored bundle that is present with four non-empty lists.
Complete(c) ==
    /\ c # Undefined
    /\ Len(c.activities) > 0 /\ Len(c.movies) > 0
    /\ Len(c.songs) > 0 /\ Len(c.food) > 0

\* A finished analytics read of an Account that has Entries.
ReadDone(s) ==
    /\ req[s].op = "analytics.GET" /\ req[s].rev = "current"
    /\ req[s].pc = "done" /\ req[s].status = 200 /\ req[s].path # "none"

\* C1 as stated: an analytics read serves the cached bundle if and only if
\* the stored fingerprint equals the fingerprint of the current three most
\* recent Entries; otherwise it regenerates.
C1_ServedIffFingerprintEqual ==
    [][\A s \in Slots : Decides(s) =>
         LET equal == users[req[s].user].lastContextHash
                          \in CurrentFingerprints(req[s].user)
         IN  /\ equal <=> Serves(s)
             /\ ~equal <=> Regenerates(s)]_vars

\* C1 amended: an analytics read serves the cached bundle if and only if
\* the stored fingerprint equals the fingerprint of the current three most
\* recent Entries and the stored bundle has four non-empty lists; otherwise
\* (fingerprint absent or different, or a list empty) it regenerates.
C1_ServedIffEqualAndComplete ==
    [][\A s \in Slots : Decides(s) =>
         LET user == users[req[s].user]
             equal == user.lastContextHash \in CurrentFingerprints(req[s].user)
             ok == equal /\ Complete(user.cachedSuggestions)
         IN  /\ ok <=> (Serves(s) /\ req'[s].path = "hit")
             /\ ~ok <=> Regenerates(s)
             /\ (user.lastContextHash = NoText \/ ~equal) => Regenerates(s)]_vars

\* A read has served the cached bundle of an Account with more Entries than
\* the fingerprint covers.
C1_Witness ==
    /\ ReadDone(1) /\ req[1].path = "hit"
    /\ Cardinality(PostsOf(1)) > ContextSize
    /\ users[1].lastContextHash \in CurrentFingerprints(1)

\* C2 as stated: a read whose stored fingerprint equals the current one
\* makes no call to the suggestion AI; a read that misses makes exactly one.
C2_HitNoCallMissOneCall ==
    \A s \in Slots : ReadDone(s) =>
        /\ req[s].path \in {"hit", "heal"} => req[s].ai = 0
        /\ req[s].path = "miss" => req[s].ai = 1

\* C2 amended: a read that serves the cached bundle makes no call to the
\* suggestion AI; a read that regenerates (on a miss, or on equal
\* fingerprints with an absent or incomplete bundle) makes exactly one,
\* also when the call fails.
C2_ServeNoCallRegenerateOneCall ==
    \A s \in Slots : ReadDone(s) =>
        /\ req[s].path = "hit" => req[s].ai = 0
        /\ req[s].path \in {"miss", "heal"} => req[s].ai = 1

\* A read has missed, its one AI call has failed and it has answered with
\* the fallback.
C2_Witness ==
    /\ ReadDone(1) /\ req[1].path = "miss" /\ req[1].ai = 1
    /\ req[1].suggestions = DefaultSuggestions

\* The delete request in slot s asks for an Entry that does not exist or
\* that belongs to another Account.
NotOwned(s) ==
    /\ req[s].op = "posts.DELETE" /\ req[s].user # NoSession
    /\ ~\E p \in posts : p.id = req[s].postId /\ p.userId = req[s].user

\* C3: a delete request (of the [id] route or of the posts route) for an
\* Entry that is not the caller's, another Account's or non-existent, is
\* answered 404 by its lookup, and no step of it removes an Entry or changes
\* any Account's cached bundle, fingerprint or timestamp.
C3_NotOwnedDelete404NothingChanged ==
    [][\A s \in Slots :
         (NotOwned(s) /\ req[s].pc \in {"findOne", "findOneAndDelete"}
                      /\ req'[s] # req[s])
         => /\ req'[s].pc = "done" /\ req'[s].status = 404
            /\ req'[s].wr = 0
            /\ posts' = posts /\ users' = users]_vars

\* A delete of another Account's Entry has been answered 404 while the
\* caller and the owner have a cached bundle each.
C3_Witness ==
    /\ req[1].op = "posts.DELETE" /\ req[1].pc = "done" /\ req[1].status = 404
    /\ \E p \in posts : p.id = req[1].postId /\ p.userId # req[1].user
    /\ \A u \in Users : /\ users[u].cachedSuggestions # Undefined
                        /\ users[u].lastContextHash # NoText

\* C4: once a delete of an owned Entry has succeeded, the Account's cached
\* bundle, fingerprint and timestamp are absent (until an analytics read
\* starts), and the first analytics read to start after it, if it finds an
\* Entry, regenerates the bundle instead of serving a cached one; in every
\* execution, other requests of the Account in flight or not, whichever
\* Entry was deleted.
C4_DeleteForcesRegeneration ==
    /\ \A u \in Users : since[u].kind = "delete" => users[u] = FreshUser
    /\ \A s \in Slots :
          (req[s].op = "analytics.GET" /\ req[s].after.kind = "delete"
              /\ req[s].path # "none")
          => req[s].path = "miss"

ReadSteps(s) ==
    /\ req[s].op = "analytics.GET" /\ req[s].rev = "current"
    /\ req[s].pc \notin {"idle", "done"} /\ req'[s] # req[s]

\* C6: a read that misses writes the new bundle, the fingerprint it computed
\* and the time in one update of the Account (its only write) and returns
\* the bundle it wrote; with no other request running, the stored
\* fingerprint is then that of the current three most recent Entries and
\* the stored bundle is the returned one.
C6_MissWritesOnceAndReturnsWritten ==
    [][\A s \in Slots : (ReadSteps(s) /\ req[s].path = "miss") =>
         LET u == req[s].user
         IN  IF req[s].pc = "update"
             THEN /\ users'[u] = UserDoc(req[s].hash, Date(clock), req[s].suggestions)
                  /\ req'[s].pc = "done" /\ req'[s].status = 200
                  /\ req'[s].wr = 1
                  /\ req'[s].body.suggestions = users'[u].cachedSuggestions
                  /\ users'[u].lastContextHash \in CurrentFingerprints(u)
             ELSE users' = users /\ req'[s].wr = 0]_vars

\* A read has missed on a changed context, replaced the bundle cached
\* before by an AI-generated one and returned it.
C6_Witness ==
    /\ ReadDone(1) /\ req[1].path = "miss" /\ req[1].after.kind = "create"
    /\ req[1].resp.kind = "json" /\ Complete(req[1].body.suggestions)
    /\ users[1] = UserDoc(CHOOSE h \in CurrentFingerprints(1) : TRUE, Date(clock),
                          req[1].body.suggestions)
    /\ Cardinality(PostsOf(1)) > 1

\* C7: with equal fingerprints, a read finding the stored bundle absent or
\* with an empty list regenerates, stores the regenerated bundle and returns
\* it; a read finding four non-empty lists returns the stored bundle as it
\* is, without a write.
C7_IncompleteBundleRegenerated ==
    [][\A s \in Slots : ReadSteps(s) =>
         LET u == req[s].user
             stored == users[u].cachedSuggestions
         IN  /\ (req[s].pc = "findUser" /\ users[u].lastContextHash = req[s].hash)
                => IF Complete(stored)
                   THEN /\ req'[s].pc = "done" /\ req'[s].status = 200
                        /\ req'[s].body.suggestions = stored
                        /\ req'[s].ai = 0 /\ req'[s].wr = 0 /\ users' = users
                   ELSE /\ req'[s].pc = "generate" /\ req'[s].path = "heal"
             /\ (req[s].pc = "generate" /\ req[s].path = "heal")
                => req'[s].pc = "update" /\ req'[s].ai = 1 /\ users' = users
             /\ (req[s].pc = "update" /\ req[s].path = "heal")
                => /\ users'[u].cachedSuggestions = req[s].suggestions
                   /\ req'[s].pc = "done" /\ req'[s].status = 200
                   /\ req'[s].body.suggestions = req[s].suggestions
                   /\ req'[s].wr = 1]_vars

\* A read has found an empty list under an equal fingerprint and has stored
\* and returned a regenerated, complete bundle.
C7_Witness ==
    /\ ReadDone(1) /\ req[1].path = "heal" /\ req[1].resp.kind = "json"
    /\ Complete(req[1].body.suggestions)
    /\ users[1].cachedSuggestions = req[1].body.suggestions

\* The AI call for a bundle has failed: it threw, returned no text or no
\* JSON, or JSON in which a category is missing or is no list.
SuggestionFailure(resp) ==
    \/ resp.kind \in {"throw", "empty", "garbage"}
    \/ /\ resp.kind = "json"
       /\ \E c \in {"activities", "movies", "songs", "food"} :
             resp.obj[c] = Undefined \/ resp.obj[c] = NotAList

\* C8: a read whose AI call has failed responds 200 with the hardcoded
\* fallback bundle, four non-empty lists.
C8_FailureGivesFallback ==
    \A s \in Slots :
        (req[s].op = "analytics.GET" /\ req[s].pc = "done"
            /\ SuggestionFailure(req[s].resp))
        => /\ req[s].status = 200
           /\ req[s].body.suggestions = DefaultSuggestions
           /\ Complete(req[s].body.suggestions)
           /\ Len(req[s].body.suggestions.activities) = 3

\* A read has missed, the AI has returned JSON without the songs list, and
\* the read has answered 200 with the fallback.
C8_Witness ==
    /\ ReadDone(1) /\ req[1].path = "miss" /\ req[1].resp.kind = "json"
    /\ req[1].resp.obj.songs = Undefined
    /\ req[1].body.suggestions = DefaultSuggestions

\* The mood-analysis AI call has failed: it threw, or returned no text or
\* no JSON.
AnalysisFailure(resp) == resp.kind \in {"throw", "empty", "garbage"}

\* C9: when the mood analysis of a create request has failed (and the
\* upload has succeeded), the save persists exactly one Entry, the caller's,
\* with six scores of 5, category 'neutral' and the fixed descriptions, and
\* the request responds with success.
C9_AnalysisFailureStillCreates ==
    [][\A s \in Slots :
         (req[s].op = "posts.POST" /\ req[s].rev = "current" /\ req[s].pc = "save"
             /\ AnalysisFailure(req[s].resp) /\ req'[s] # req[s])
         => /\ req'[s].pc = "done" /\ req'[s].status = 200 /\ req'[s].wr = 1
            /\ \E p \in posts' :
                  /\ p \notin posts /\ posts' = posts \cup {p}
                  /\ p.userId = req[s].user /\ p = req'[s].body
                  /\ \A n \in TraitNames : p.mentalHealthTraits[n] = 5
                  /\ p.overallMood = "neutral"
                  /\ p.detailedMoodDescription = UnableDetailed
                  /\ p.moodDescription = UnableShort]_vars

\* A create request whose mood analysis threw has responded 200 and its
\* Entry, with the default analysis, is in the datastore.
C9_Witness ==
    /\ req[1].op = "posts.POST" /\ req[1].pc = "done" /\ req[1].status = 200
    /\ req[1].resp.kind = "throw" /\ req[1].up = 1 /\ req[1].ai = 1
    /\ \E p \in posts : p.id = req[1].postId /\ p.overallMood = "neutral"
                          /\ p.mentalHealthTraits = Traits(5, 5, 5, 5, 5, 5)

\* C10: an analytics read of an Account without Entries responds 200 with
\* every field present and zero or empty, none null or missing, calls no AI
\* and writes nothing.
C10_ZeroEntriesAllFieldsZero ==
    \A s \in Slots :
        (req[s].op = "analytics.GET" /\ req[s].pc = "done"
            /\ req[s].user # NoSession /\ PostsOf(req[s].user) = {})
        => /\ req[s].status = 200
           /\ req[s].body.null = {} /\ req[s].body.missing = {}
           /\ req[s].body.totalPosts = 0
           /\ \A n \in TraitNames : /\ req[s].body.averageScores[n] = 0
                                    /\ req[s].body.recentTrends[n] = <<>>
           /\ \A m \in Moods : req[s].body.moodDistribution[m] = 0
           /\ req[s].body.topMoodDescriptions = <<>>
           /\ req[s].body.suggestions = Bundle(<<>>, <<>>, <<>>, <<>>)
           /\ req[s].ai = 0 /\ req[s].wr = 0

\* The list request in slot s reads the Entries and responds.
Lists(s) == At(s, "posts.GET", "find") /\ req'[s].pc = "done"

\* The Entry a list request found created last when it started is still the
\* last one created.
NewestStill(s) == req[s].after.kind = "create" /\ req[s].after.id = LastCreated

Range(q) == {q[i] : i \in 1..Len(q)}

\* C12: the list operation returns all Entries the authenticated Account
\* owns, each once, and no Entry of another Account, ordered by creation
\* time newest first, whatever creates and deletes the Accounts have made.
C12_ListOwnedNewestFirst ==
    [][\A s \in Slots : Lists(s) =>
         LET q == req'[s].body.list
         IN  /\ req'[s].status = 200
             /\ Range(q) = {p \in posts : p.userId = req[s].user}
             /\ Len(q) = Cardinality(Range(q))
             /\ \A i, j \in 1..Len(q) : i < j => q[i].createdAt >= q[j].createdAt]_vars

\* Account 1 has listed its two Entries while Account 2 owns one and an
\* Entry has been deleted.
C12_Witness ==
    /\ req[1].op = "posts.GET" /\ req[1].pc = "done" /\ req[1].user = 1
    /\ Len(req[1].body.list) = 2
    /\ req[1].body.list[1].createdAt > req[1].body.list[2].createdAt
    /\ PostsOf(2) # {}
    /\ Cardinality(posts) < LastCreated

\* C13: every operation (list, create and delete of Entries, analytics read,
\* chat history read, chat post, debug cache clear) invoked without a
\* session that carries a user id responds 401 at once, whatever its other
\* inputs: the request takes no step that reads or writes the datastore,
\* uploads or calls the AI, and the collections stay as they are.
C13_NoSessionIs401NoEffect ==
    [][\A s \in Slots :
         (req'[s] # req[s] /\ req'[s].user = NoSession)
         => /\ req'[s].pc = "done" /\ req'[s].status = 401
            /\ req'[s].ai = 0 /\ req'[s].wr = 0 /\ req'[s].up = 0
            /\ posts' = posts /\ users' = users /\ messages' = messages
            /\ nextId' = nextId]_vars

\* A chat post without a session was refused while the Account had an Entry,
\* a cached bundle and chat messages.
C13_Witness ==
    /\ req[1].op = "chat.POST" /\ req[1].user = NoSession
    /\ req[1].pc = "done" /\ req[1].status = 401
    /\ posts # {} /\ messages # {} /\ users[1].cachedSuggestions # Undefined

\* The read in slot s, which has missed, writes.
MissWrites(s) ==
    /\ At(s, "analytics.GET", "update") /\ req[s].path = "miss"
    /\ req'[s].pc = "done"

\* C14: concurrent analytics reads of one Account that have both missed have
\* each called the suggestion generation, and each writes its own bundle and
\* fingerprint whatever the other has written: the pair on the Account is
\* that of the read that wrote last.
C14_EachMissWritesOwnPair ==
    [][\A s \in Slots : MissWrites(s) =>
         /\ req[s].ai = 1
         /\ users'[req[s].user].cachedSuggestions = req[s].suggestions
         /\ users'[req[s].user].lastContextHash = req[s].hash
         /\ req'[s].body.suggestions = req[s].suggestions]_vars

\* With no Entry deleted, two reads have both missed and generated
\* different bundles; the Account holds the one of the read in slot 2.
C14_Witness ==
    /\ Cardinality(posts) = MaxPosts
    /\ \A s \in Slots : /\ ReadDone(s) /\ req[s].path = "miss"
                        /\ req[s].ai = 1 /\ req[s].wr = 1
    /\ req[1].suggestions # req[2].suggestions
    /\ users[1].cachedSuggestions = req[2].suggestions

\* The user message of the chat post in slot s is in the log.
UserMessageStored(s) ==
    \E m \in messages :
        /\ m.userId = req[s].user /\ m.role = "user"
        /\ m.content = req[s].message.text

\* C15: a chat post with a non-empty string message has persisted the user
\* message when the AI is called; it then persists exactly one assistant
\* message that holds the reply and returns that message; after the post
\* has succeeded the log holds both, the user message not later than the
\* assistant message.
C15_UserThenAssistantPersisted ==
    [][\A s \in Slots : (req[s].op = "chat.POST" /\ req'[s] # req[s]) =>
         /\ req'[s].ai > req[s].ai
               => /\ UserMessageStored(s) /\ req[s].wr = 1 /\ req[s].ai = 0
                  /\ messages' = messages
         /\ req[s].pc = "saveAssistant"
               => /\ req'[s].pc = "done" /\ req'[s].status = 200
                  /\ req'[s].body \notin messages
                  /\ messages' = messages \cup {req'[s].body}
                  /\ req'[s].body.role = "assistant"
                  /\ req'[s].body.userId = req[s].user
                  /\ req'[s].body.content = req[s].reply
                  /\ req'[s].ai = 1 /\ req'[s].wr = 2
                  /\ \E m \in messages' :
                        /\ m.userId = req[s].user /\ m.role = "user"
                        /\ m.content = req[s].message.text
                        /\ m.timestamp <= req'[s].body.timestamp
                        /\ m.id < req'[s].body.id
         /\ req[s].pc \notin {"saveUser", "saveAssistant"}
               => messages' = messages]_vars

\* A chat post has returned the AI's reply, trimmed, while another chat post
\* of the Account ran: the log holds the messages of both.
C15_Witness ==
    /\ req[1].op = "chat.POST" /\ req[1].pc = "done" /\ req[1].status = 200
    /\ req[1].resp.kind = "text" /\ req[1].body.content = <<79, 107>>
    /\ req[1].body \in messages
    /\ req[2].op = "chat.POST" /\ req[2].pc = "saveAssistant"
    /\ Cardinality(messages) = 3

\* The AI call of a chat post has failed: it threw, or returned no text.
ChatFailure(resp) == resp.kind = "throw" \/ (resp.kind = "text" /\ resp.text = <<>>)

\* C16: when the AI call of a chat post fails (throws or returns no text),
\* the chat post goes on, responds with success, and the assistant message
\* it persists and returns has the fixed supportive sentence as content.
C16_AIFailureGivesFallbackReply ==
    \A s \in Slots :
        (req[s].op = "chat.POST" /\ ChatFailure(req[s].resp))
        => /\ req[s].pc \in {"saveAssistant", "done"}
           /\ req[s].reply = FallbackReply
           /\ req[s].pc = "done"
                 => /\ req[s].status = 200
                    /\ req[s].body \in messages
                    /\ req[s].body.role = "assistant"
                    /\ req[s].body.content = FallbackReply

\* A chat post whose AI call threw has responded.
C16_Witness ==
    /\ req[1].op = "chat.POST" /\ req[1].pc = "done"
    /\ req[1].resp.kind = "throw" /\ req[1].ai = 1
    /\ req[1].body \in messages

\* A step that leaves the datastore as it is and ends the request in slot s
\* with status 400 before any upload, AI call or write.
Rejected(s) ==
    /\ req'[s].pc = "done" /\ req'[s].status = 400
    /\ req'[s].ai = 0 /\ req'[s].wr = 0 /\ req'[s].up = 0
    /\ posts' = posts /\ users' = users /\ messages' = messages
    /\ nextId' = nextId

\* C17: an authenticated create request that lacks the image or the
\* caption, and an authenticated chat post whose message is missing, empty
\* or no string, respond 400 and have no effect: no upload, no AI call, no
\* Entry, Chat Message or Account field written.
C17_InvalidInputIs400NoEffect ==
    [][\A s \in Slots, u \in Users :
         /\ \A form \in Forms :
               ((~form.image \/ ~form.caption)
                  /\ req'[s].op = "posts.POST" /\ req'[s].user = u
                  /\ StartPost(s, u, "current", form))
               => Rejected(s)
         /\ \A body \in {Undefined, StringValue(<<>>), NumberValue(0), NumberValue(7)} :
               (req'[s].op = "chat.POST" /\ req'[s].user = u
                  /\ StartChat(s, u, body))
               => Rejected(s)]_vars

\* A create request was rejected while the Account had an Entry, a cached
\* bundle and chat messages.
C17_Witness ==
    /\ req[1].op = "posts.POST" /\ req[1].user = 1
    /\ req[1].pc = "done" /\ req[1].status = 400
    /\ posts # {} /\ messages # {} /\ users[1].cachedSuggestions # Undefined

\* 31 * h + c modulo 2^32, on the halves of the pattern of h.
Times31Plus(h, c) ==
    LET w == FromInt32(h)
        lo == 31 * w.lo + c
        hi == 31 * w.hi + (lo \div Half)
    IN  ToInt32(Word(hi % Half, lo % Half))

RECURSIVE Poly31(_, _, _)
\* h := (31 * h + charCode) wrapped to 32 bits, over the string s from its
\* i-th code unit on (h is a 32-bit integer).
Poly31(h, s, i) == IF h \in Int32 /\ i <= Len(s)
                   THEN Poly31(Times31Plus(h, s[i]), s, i + 1)
                   ELSE h

\* The context string of a list of Entries in the two revisions of
\* createContextHash.
ContextString(op, l) ==
    IF op = "analytics.GET"
    THEN Join([i \in 1..Len(l) |->
                 NumToString(l[i].id) \o Dash \o NumToString(l[i].createdAt)
                     \o Dash \o l[i].detailedMoodDescription], Bar)
    ELSE Join([i \in 1..Len(l) |->
                 NumToString(l[i].id) \o Dash \o l[i].detailedMoodDescription], Bar)

\* The request in slot s computes a fingerprint.
Fingerprints(s) == req'[s].hash # NoText /\ req[s].hash = NoText

\* C18: the fingerprint a request computes from a list of up to three
\* Entries is the decimal form of h := (31 * h + charCode), wrapped to a
\* signed 32-bit integer, iterated from 0 over the joined context string; it
\* lies in [-2^31, 2^31 - 1] and is the same for every reading of the same
\* list of Entries, of three Entries or fewer.
C18_FingerprintIsWrappedPolynomial ==
    [][\A s \in Slots : Fingerprints(s) =>
         LET lists == {Slice(q, ContextSize) : q \in SortedDesc(PostsOf(req[s].user))}
             read == {l \in lists : Ids(l) = req'[s].ctx}
         IN  /\ read # {}
             /\ \A l \in read :
                   LET h == Poly31(0, ContextString(req[s].op, l), 1)
                   IN  /\ h >= -2147483647 - 1 /\ h <= 2147483647
                       /\ req'[s].hash = NumToString(h)]_vars

\* An analytics read of three Entries has computed a negative fingerprint
\* while another fingerprint is stored on the Account.
C18_Witness ==
    /\ req[1].op = "analytics.GET" /\ req[1].pc = "findUser"
    /\ Len(req[1].ctx) = ContextSize
    /\ Head(req[1].hash) = 45
    /\ users[1].lastContextHash # NoText

RECURSIVE TraitTotal(_, _)
\* The sum of the trait t over a set of Entries.
TraitTotal(S, t) ==
    IF S = {} THEN 0
    ELSE LET p == CHOOSE x \in S : TRUE
         IN  p.mentalHealthTraits[t] + TraitTotal(S \ {p}, t)

\* x tenths is total / n rounded to one decimal place, a half rounded up:
\* x - 1/2 <= 10 * total / n < x + 1/2.
IsRoundedAverage(x, total, n) ==
    /\ 2 * n * x <= 20 * total + n
    /\ 20 * total + n < 2 * n * (x + 1)

\* C19: for an Account with n >= 1 Entries each of the six averages an
\* analytics read reports is the sum of the trait over all n Entries divided
\* by n and rounded to one decimal place, halves up (the averages are kept
\* in tenths: 6.0 is 60).
C19_AveragesRoundedToTenths ==
    \A s \in Slots :
        (ReadDone(s) /\ PostsOf(req[s].user) # {})
        => LET S == PostsOf(req[s].user)
           IN  /\ req[s].body.totalPosts = Cardinality(S)
               /\ \A t \in TraitNames :
                     IsRoundedAverage(req[s].body.averageScores[t],
                                      TraitTotal(S, t), Cardinality(S))

\* The Entries have the happiness scores 8, 6 and 4 and the read has
\* reported 6.0.
C19_Witness ==
    /\ ReadDone(1)
    /\ Cardinality(posts) = 3
    /\ {p.mentalHealthTraits.happiness : p \in posts} = {8, 6, 4}
    /\ req[1].body.averageScores.happiness = 60

\* The four Entries have the happiness scores 1, 4, 4 and 4 (3.25): the
\* read has reported 3.3.
C19_HalfWitness ==
    /\ ReadDone(1)
    /\ Cardinality(posts) = 4
    /\ TraitTotal(posts, "happiness") = 13
    /\ req[1].body.averageScores.happiness = 33

\* The Accounts whose email, stored hash and password the credentials c
\* match.
Matching(c) ==
    IF c = Undefined THEN {}
    ELSE {a \in AccountIds :
            /\ c.email # Undefined /\ c.password # Undefined
            /\ c.email.text # <<>> /\ c.password.text # <<>>
            /\ Accounts[a].email = c.email.text
            /\ Accounts[a].password # Undefined
            /\ Accounts[a].password.bcrypt = c.password.text}

\* C20: the credential-verification callback returns an identity only when
\* email and password are both supplied, an Account with that email exists
\* and has a password hash and the password matches the hash; otherwise it
\* returns null; the id on the session is the id of the matched Account.
C20_AuthorizeOnlyOnMatch ==
    \A s \in Slots :
        (req[s].op = "auth.authorize" /\ req[s].pc = "done")
        => LET matched == Matching(req[s].message)
           IN  /\ matched = {} => (req[s].body = Null /\ SessionOf(s) = NoSession)
               /\ matched # {}
                     => /\ req[s].body # Null
                        /\ matched = {SessionOf(s)}
                        /\ req[s].body.email = Accounts[SessionOf(s)].email

\* Account 1 has signed in with its email and password and has listed its
\* Entries.
C20_Witness ==
    /\ req[2].op = "auth.authorize" /\ req[2].status = 200
    /\ req[2].message = [email |-> StringValue(<<97>>),
                         password |-> StringValue(<<112, 49>>)]
    /\ req[2].body.id = <<49>>
    /\ req[1].op = "posts.GET" /\ req[1].pc = "done" /\ req[1].user = 1
    /\ Len(req[1].body.list) = 2

\* C21: whenever an Account holds both a fingerprint and a bundle, the
\* bundle was generated from the Entries the fingerprint was computed from:
\* every write that leaves both on the Account is the write of an analytics
\* read that leaves its own fingerprint and the bundle it generated for the
\* Entries of that fingerprint, in every interleaving of reads, creates and
\* deletes.
C21_StoredPairFromSameEntries ==
    [][\A u \in Users :
          (/\ users'[u] # users[u]
           /\ users'[u].lastContextHash # NoText
           /\ users'[u].cachedSuggestions # Undefined)
          => \E s \in Slots :
                /\ At(s, "analytics.GET", "update") /\ req[s].user = u
                /\ req'[s].pc = "done"
                /\ users'[u].lastContextHash = req[s].hash
                /\ users'[u].cachedSuggestions = req[s].suggestions]_vars

\* C22: for every list of up to three Entries the createContextHash of the
\* posts route returns the fingerprint the createContextHash of the
\* analytics route returns, so the fingerprint updateUserContext is about to
\* store is the one an analytics read computes for the same Entries.
C22_PostsHashEqualsAnalyticsHash ==
    \A s \in Slots :
        req[s].pc = "contextUpdate"
        => \A q \in SortedDesc(PostsOf(req[s].user)) :
              Ids(Slice(q, ContextSize)) = req[s].ctx
              => /\ createContextHashPosts(Slice(q, ContextSize)) = req[s].hash
                 /\ createContextHashAnalytics(Slice(q, ContextSize)) = req[s].hash

\* C23: within one create request the image upload, the AI analysis, the
\* persistence of the Entry and the cache update run in this order, each
\* after the one before it has completed; a failed upload and a failed
\* persistence respond 500; no Entry is persisted unless the upload and the
\* analysis (or its fallback) have completed.
C23_CreateStepsInOrder ==
    [][\A s \in Slots :
          LET r == req[s]
              n == req'[s]
          IN  (r.op = "posts.POST" /\ ~Free(s) /\ n # r)
              => /\ n.up > r.up => (r.pc = "upload" /\ r.up = 0 /\ r.ai = 0 /\ r.wr = 0)
                 /\ n.ai > r.ai => (r.pc = "analyze" /\ r.up = 1 /\ r.ai = 0 /\ r.wr = 0)
                 /\ r.pc = "save"
                       => /\ r.up = 1 /\ r.ai >= 1 /\ r.wr = 0
                          /\ r.analysis = analyzeMood(r.resp)
                          /\ \/ n.wr = 1 /\ posts' = posts \cup {NewPost(nextId, r.user, clock, r.analysis)}
                             \/ n.wr = 0 /\ n.pc = "done" /\ n.status = 500
                                         /\ posts' = posts
                 /\ r.pc # "save" => posts' = posts
                 /\ users' # users
                       => /\ r.pc = "contextUpdate" /\ r.up = 1 /\ r.ai >= 1 /\ r.wr = 1
                          /\ n.wr = 2
                 /\ (r.pc = "upload" /\ n.up = r.up)
                       => (n.pc = "done" /\ n.status = 500)
                 /\ n.status = 200 => r.pc \in {"save", "contextFind", "contextUpdate"}]_vars

\* A create request of the revision with updateUserContext has uploaded,
\* analysed, persisted its Entry and updated the fingerprint, and has
\* responded with success.
C23_Witness ==
    /\ req[1].op = "posts.POST" /\ req[1].rev = "context"
    /\ req[1].pc = "done" /\ req[1].status = 200
    /\ req[1].up = 1 /\ req[1].ai >= 1 /\ req[1].wr = 2
    /\ \E p \in posts : p.id = req[1].postId
    /\ users[1].lastContextHash # NoText

\* C24: the chat log is append-only: no operation removes a Chat Message or
\* changes its role, content or timestamp; the messages of an Account at a
\* later state include those of every earlier state.
C24_ChatLogAppendOnly ==
    [][\A u \in Users : MessagesOf(u) \subseteq {m \in messages' : m.userId = u}]_vars

\* With a user message and the assistant's reply in the log, a delete
\* request or a cache clear of the Account has been served.
C24_Witness ==
    /\ Cardinality(MessagesOf(1)) = 2
    /\ {m.role : m \in MessagesOf(1)} = {"user", "assistant"}
    /\ req[1].op \in {"posts.DELETE", "debug.POST"}
    /\ req[1].pc = "done" /\ req[1].user = 1

\* C25: the chat history read returns the Account's 50 most recent messages
\* (all of them when there are fewer) in ascending order of timestamp: no
\* message it leaves out is newer than one it returns.
C25_HistoryIsNewestFifty ==
    \A s \in Slots :
        (req[s].op = "chat.GET" /\ req[s].pc = "done" /\ req[s].status = 200)
        => LET list == req[s].body.list
               all == MessagesOf(req[s].user)
           IN  /\ Len(list) = Min(HistoryLimit, Cardinality(all))
               /\ Range(list) \subseteq all
               /\ \A i \in 1..(Len(list) - 1) : list[i].timestamp <= list[i + 1].timestamp
               /\ \A m \in all \ Range(list), x \in Range(list) :
                     m.timestamp <= x.timestamp

\* The Entries of S with exactly k newer Entries in S.
NewerBy(S, k) ==
    {e \in S : Cardinality({p \in S : p.createdAt > e.createdAt}) = k}

\* C26: for an Account with n >= 1 Entries each of the six trend arrays has
\* length min(n, 10) and holds the raw scores of the ten most recent
\* Entries, oldest first: the last element is the newest Entry's score.
C26_TrendsOfTenNewestOldestFirst ==
    \A s \in Slots :
        (req[s].op = "analytics.GET" /\ req[s].rev = "current"
            /\ req[s].pc = "done" /\ req[s].status = 200
            /\ PostsOf(req[s].user) # {})
        => LET all == PostsOf(req[s].user)
               len == Min(Cardinality(all), 10)
           IN  \A t \in TraitNames :
                   /\ Len(req[s].body.recentTrends[t]) = len
                   /\ \A i \in 1..len :
                         \E e \in NewerBy(all, len - i) :
                             req[s].body.recentTrends[t][i] = e.mentalHealthTraits[t]

\* An analytics read of twelve Entries has responded: the trend of anxiety
\* has ten elements, from the score of Entry 3 to that of Entry 12.
C26_Witness ==
    /\ Cardinality(PostsOf(1)) = 12
    /\ req[1].op = "analytics.GET" /\ req[1].pc = "done" /\ req[1].status = 200
    /\ req[1].body.recentTrends["anxiety"] = <<3, 4, 5, 6, 7, 8, 9, 10, 0, 1>>

\* C27: for each Entry at most one delete request is answered with success:
\* of two delete requests for the same Entry, concurrent or not, the
\* responses held at the same time are not both a success (ids are never
\* handed out twice).
C27_AtMostOneDeleteSucceeds ==
    \A s, t \in Slots :
        (/\ s # t
         /\ req[s].op = "posts.DELETE" /\ req[s].pc = "done" /\ req[s].status = 200
         /\ req[t].op = "posts.DELETE" /\ req[t].pc = "done" /\ req[t].status = 200)
        => req[s].postId # req[t].postId

\* C28: a chat post that responds 401, 400 or 500 leaves the chat log as it
\* was: the request has written no message.
C28_ErrorLeavesLogUnchanged ==
    \A s \in Slots :
        (req[s].op = "chat.POST" /\ req[s].pc = "done"
            /\ req[s].status \in {401, 400, 500})
        => req[s].wr = 0

\* C29: on the chat page, when a send completes with an ok response the
\* displayed list ends with the user's message followed by the assistant's
\* reply, and when it completes with a failure the displayed list is the
\* list before the send, in every interleaving with the initial history
\* load; at most one send is in flight at any time.
C29_PageListAfterSend ==
    /\ [][(page.send = "sent" /\ page'.send = "none")
            => LET shown == page'.messages
               IN  IF req[2].status = 200
                   THEN /\ Len(shown) >= 2
                        /\ shown[Len(shown) - 1] = page.sent
                        /\ shown[Len(shown)] = req[2].body
                   ELSE shown = page.before]_vars
    /\ [](page.inFlight <= 1)

\* The analytics read in slot 2, which followed the read of slot 1 with no
\* request between them, responds.
SecondReadResponds == req[2].pc # "done" /\ req'[2].pc = "done"

\* The second read has made no AI call, has written nothing and returns the
\* bundle of the first.
Memoized ==
    /\ req'[2].status = 200
    /\ req'[2].ai = 0 /\ req'[2].wr = 0 /\ users' = users
    /\ req'[2].body.suggestions = req[1].body.suggestions

====
